---- MODULE Spec2Model ----
(***************************************************************************)
(* HR assistant: role-based permission policy, tool registry with a        *)
(* process-wide execution context, audit recorder, conversation store and  *)
(* the chat route's POST turn (resolve, load, validate, generate,          *)
(* finalize).                                                              *)
(*                                                                         *)
(* The specifications share the variables:                                 *)
(*   SpecPolicy  - the pure permission functions applied to drawn inputs   *)
(*   SpecDedup   - the finalize reconciliation applied to drawn inputs     *)
(*   Spec        - concurrent POST turns with tool invocations             *)
(*   SpecChat    - concurrent POST turns over varied conversations         *)
(*   SpecResume  - a POST turn and resumption GETs                         *)
(*   SpecLive    - POST turns whose clients may disconnect, with fairness  *)
(*   SpecPayroll - calculatePayroll applied to drawn rows and input        *)
(*   SpecSteps   - POST turns that request a tool at every step            *)
(*   SpecStatus  - POST turns that call the payroll status tools           *)
(***************************************************************************)
EXTENDS Integers, Sequences, FiniteSets, TLC

VARIABLES
    query,          \* SpecPolicy: one call of checkPermission / canAccessEmployee
    fin,            \* SpecDedup: one onFinish run over a drawn message sequence
    pay,            \* SpecPayroll: one calculatePayroll run over drawn rows and input
    users,          \* prisma.user: user id -> role
    currentContext, \* tools.ts module-level `currentContext`
    turns,          \* in-flight POST handlers, one record per turn
    calls,          \* the tool execution in flight in each turn
    db,             \* primary records: record id -> record
    auditLog,       \* prisma.auditLog rows, in insertion order
    chats,          \* conversation store: chat id -> message sequence
    nextUuid        \* number of identifiers generated so far

vars == <<query, fin, pay, users, currentContext, turns, calls, db, auditLog, chats, nextUuid>>

policyVars == <<query>>
dedupVars == <<fin>>
payVars == <<pay>>
turnVars == <<users, currentContext, turns, calls, db, auditLog, chats, nextUuid>>

----------------------------------------------------------------------------
(* Bounds of the model *)

MaxLen == 4         \* longest message sequence handed to onFinish in SpecDedup
MaxMsgId == 2       \* client-supplied message ids are 1..MaxMsgId, 0 is missing/empty

----------------------------------------------------------------------------
(* Permission policy (lib/auth/rbac) *)

UserRole == {"HR_Admin", "HR_Manager", "Employee", "Finance"}

Action == {"create", "read", "update", "delete", "approve"}

Entity == {"employee", "contract", "letter", "attendance", "payroll", "benefit", "user"}

\* property names every object literal inherits from Object.prototype; the
\* inherited values are truthy and have no property named by an Entity
InheritedKeys == {"constructor"}

\* role strings a stored user may carry: the declared ones, an undeclared one and
\* one that names an inherited property of the table object
RoleStrings == UserRole \cup {"Intern"} \cup InheritedKeys

\* entity names: the declared ones and one without any entry
EntityStrings == Entity \cup {"document"}

permissions ==
    [r \in UserRole |->
        CASE r = "HR_Admin" ->
               [e \in Entity |->
                   CASE e \in {"attendance", "payroll"} ->
                          <<"create", "read", "update", "delete", "approve">>
                     [] OTHER -> <<"create", "read", "update", "delete">>]
          [] r = "HR_Manager" ->
               [e \in Entity |->
                   CASE e \in {"attendance", "payroll"} -> <<"read", "update", "approve">>
                     [] e = "user" -> <<"read">>
                     [] OTHER -> <<"read", "update">>]
          [] r = "Employee" ->
               [e \in Entity |->
                   CASE e = "attendance" -> <<"create", "read", "update">>
                     [] e = "user" -> <<>>
                     [] OTHER -> <<"read">>]
          [] r = "Finance" ->
               [e \in Entity |->
                   CASE e = "payroll" -> <<"read", "update", "approve">>
                     [] e = "user" -> <<>>
                     [] OTHER -> <<"read">>]]

\* Array.prototype.includes
includes(arr, x) == \E i \in 1..Len(arr) : arr[i] = x

checkPermissionGranting(role, action, entity) ==
    IF role \notin DOMAIN permissions THEN TRUE
    ELSE IF entity \notin DOMAIN permissions[role] THEN FALSE
    ELSE includes(permissions[role][entity], action)

\* permissions[role] is undefined unless role is an own or inherited key; an
\* inherited value has no entry for the entity
checkPermission(role, action, entity) ==
    IF role \notin DOMAIN permissions \cup InheritedKeys THEN FALSE
    ELSE IF role \in InheritedKeys THEN FALSE
    ELSE IF entity \notin DOMAIN permissions[role] THEN FALSE
    ELSE includes(permissions[role][entity], action)

canAccessEmployeeAnyEmployee(role, employeeId, requestingUserId) ==
    IF role \in {"HR_Admin", "HR_Manager", "Finance"} THEN TRUE
    ELSE IF role = "Employee" THEN TRUE
    ELSE FALSE

canAccessEmployee(role, employeeId, requestingUserId) ==
    IF role \in {"HR_Admin", "HR_Manager", "Finance"} THEN TRUE
    ELSE IF role = "Employee" THEN employeeId = requestingUserId
    ELSE FALSE

----------------------------------------------------------------------------
(* Finalize reconciliation (chat route, onFinish) *)

\* crypto.randomUUID(): the n-th generated identifier; never a client id
randomUUID(n) == 100 + n

\* messages.map(m => ({...m, id: m.id non-empty ? m.id : randomUUID()}))
RECURSIVE normalizeFrom(_, _, _)
normalizeFrom(messages, i, n) ==
    IF i > Len(messages) THEN <<>>
    ELSE IF messages[i].id # 0
         THEN <<messages[i]>> \o normalizeFrom(messages, i + 1, n)
         ELSE <<[messages[i] EXCEPT !.id = randomUUID(n)]>>
                  \o normalizeFrom(messages, i + 1, n + 1)

\* a map that leaves empty ids as they are
normalizeKeepEmpty(messages, n) == messages

normalize(messages, n) == normalizeFrom(messages, 1, n)

\* how many identifiers normalize generates
missingIds(messages) == Cardinality({i \in 1..Len(messages) : messages[i].id = 0})

\* for (i = length-1; i >= 0; i--) if (!seen.has(id)) { seen.add(id); deduped.unshift(msg) }
RECURSIVE dedupLoop(_, _, _, _)
dedupLoop(normalized, i, seen, deduped) ==
    IF i < 1 THEN deduped
    ELSE IF normalized[i].id \notin seen
         THEN dedupLoop(normalized, i - 1, seen \cup {normalized[i].id},
                        <<normalized[i]>> \o deduped)
         ELSE dedupLoop(normalized, i - 1, seen, deduped)

\* a forward scan that keeps the first occurrence of each id
RECURSIVE dedupeKeepFirstLoop(_, _, _, _)
dedupeKeepFirstLoop(normalized, i, seen, deduped) ==
    IF i > Len(normalized) THEN deduped
    ELSE IF normalized[i].id \notin seen
         THEN dedupeKeepFirstLoop(normalized, i + 1, seen \cup {normalized[i].id},
                                  deduped \o <<normalized[i]>>)
         ELSE dedupeKeepFirstLoop(normalized, i + 1, seen, deduped)

dedupeKeepFirst(normalized) == dedupeKeepFirstLoop(normalized, 1, {}, <<>>)

\* the reverse scan with push instead of unshift
RECURSIVE dedupePushLoop(_, _, _, _)
dedupePushLoop(normalized, i, seen, deduped) ==
    IF i < 1 THEN deduped
    ELSE IF normalized[i].id \notin seen
         THEN dedupePushLoop(normalized, i - 1, seen \cup {normalized[i].id},
                             deduped \o <<normalized[i]>>)
         ELSE dedupePushLoop(normalized, i - 1, seen, deduped)

dedupePush(normalized) == dedupePushLoop(normalized, Len(normalized), {}, <<>>)

\* a reconciliation that keeps only the newest message
dedupeLastOnly(normalized) ==
    IF normalized = <<>> THEN <<>> ELSE <<normalized[Len(normalized)]>>

\* no de-duplication at all
dedupeNone(normalized) == normalized

dedupe(normalized) == dedupLoop(normalized, Len(normalized), {}, <<>>)

\* saveChat: reconciling append keyed by message id
saveChat(stored, messages) ==
    LET ids == {messages[i].id : i \in 1..Len(messages)}
        keep(m) == m.id \notin ids
    IN SelectSeq(stored, keep) \o messages

----------------------------------------------------------------------------
(* Identities and stored data *)

\* employee record ids; user "E1" is the employee "E1"
EmployeeIds == {"E1", "E2"}

\* ctx.userId is optional
NoUserId == "undefined"

\* prisma.user at start
InitialUsers == [u \in {"E1", "A1"} |-> IF u = "E1" THEN "Employee" ELSE "HR_Admin"]

MessageTexts == {"a", "b"}

ClientMessages == [id : 0..MaxMsgId, text : MessageTexts]

MessageSeqs == UNION {[1..n -> ClientMessages] : n \in 0..MaxLen}

----------------------------------------------------------------------------
(* SpecPolicy: the permission functions applied to drawn arguments *)

InitQuery ==
    query \in [fn : {"none"}, role : RoleStrings, action : Action, entity : EntityStrings,
               employeeId : EmployeeIds, requestingUserId : EmployeeIds \cup {NoUserId},
               result : {FALSE}]

IdleQuery ==
    [fn |-> "none", role |-> "Employee", action |-> "read", entity |-> "employee",
     employeeId |-> "E1", requestingUserId |-> "E1", result |-> FALSE]

CallCheckPermission ==
    /\ query.fn = "none"
    /\ query' = [query EXCEPT !.fn = "checkPermission",
                              !.result = checkPermission(query.role, query.action, query.entity)]
    /\ UNCHANGED <<fin, pay, turnVars>>

CallCanAccessEmployee ==
    /\ query.fn = "none"
    /\ query' = [query EXCEPT !.fn = "canAccessEmployee",
                              !.result = canAccessEmployee(query.role, query.employeeId,
                                                           query.requestingUserId)]
    /\ UNCHANGED <<fin, pay, turnVars>>

NextPolicy == CallCheckPermission \/ CallCanAccessEmployee

----------------------------------------------------------------------------
(* SpecDedup: onFinish applied to a drawn message sequence *)

\* onFinish: normalize, de-duplicate, saveChat
finalize(stored, messages, n) == saveChat(stored, dedupe(normalize(messages, n)))

IdleFin ==
    [input |-> <<>>, normalized |-> <<>>, deduped |-> <<>>, stored |-> <<>>,
     first |-> <<>>, doubled |-> <<>>, runs |-> 0, doubledRun |-> FALSE, uuids |-> 0]

InitFin == fin \in {[IdleFin EXCEPT !.input = m] : m \in MessageSeqs}

\* one onFinish over the drawn sequence, into the harness's conversation
OnFinishRun ==
    /\ fin.runs < 2
    /\ LET normalized == normalize(fin.input, fin.uuids)
           deduped == dedupe(normalized)
           stored == saveChat(fin.stored, deduped)
       IN fin' = [fin EXCEPT !.normalized = normalized,
                             !.deduped = deduped,
                             !.stored = stored,
                             !.first = IF fin.runs = 0 THEN stored ELSE fin.first,
                             !.runs = fin.runs + 1,
                             !.uuids = fin.uuids + missingIds(fin.input)]
    /\ UNCHANGED <<query, pay, turnVars>>

\* one onFinish over the drawn sequence followed by itself, into an empty conversation
OnFinishDoubled ==
    /\ ~fin.doubledRun
    /\ fin' = [fin EXCEPT !.doubled = finalize(<<>>, fin.input \o fin.input, fin.uuids),
                          !.doubledRun = TRUE,
                          !.uuids = fin.uuids + 2 * missingIds(fin.input)]
    /\ UNCHANGED <<query, pay, turnVars>>

NextDedup == OnFinishRun \/ OnFinishDoubled

----------------------------------------------------------------------------
(* SpecPayroll: calculatePayroll applied to drawn rows and input *)

\* attendance rows stored at most
MaxRows == 2

\* dates are the days 1..MaxDay
MaxDay == 3

\* employee.salary; the drawn salaries make salary / 160 * 1.5 a whole number
Salaries == {1600, 3200}

OvertimeHours == {5, 10}

\* prisma.attendanceRecord rows: owner, date, overtimeHours
AttendanceRows == [employeeId : {"E1", "E2"}, date : 1..MaxDay, overtimeHours : OvertimeHours]

AttendanceTables == {rows \in SUBSET AttendanceRows : Cardinality(rows) <= MaxRows}

\* input.deductions: absent, a string that is not JSON, the JSON text null, or the
\* JSON text of an object whose values are numbers or something Number() maps to NaN
DeductionValues == [numeric : {TRUE}, value : {100, 50, -20}] \cup {[numeric |-> FALSE, value |-> 0]}

DeductionInputs ==
    {[kind |-> k, values |-> <<>>] : k \in {"absent", "invalid", "null"}}
      \cup {[kind |-> "object", values |-> v] :
               v \in {<<>>} \cup [1..1 -> DeductionValues]
                       \cup {<<[numeric |-> TRUE, value |-> 100],
                               [numeric |-> TRUE, value |-> 50]>>,
                             <<[numeric |-> FALSE, value |-> 0],
                               [numeric |-> TRUE, value |-> 100]>>}}

\* the inputs of one calculatePayroll call
PayrollInputs ==
    [employeeId : {"E2", "E9"}, periodStart : 1..MaxDay, periodEnd : 1..MaxDay,
     deductions : DeductionInputs]

\* attendanceRecord.findMany({ where: { employeeId, date: { gte, lte } } })
attendanceRecords(rows, input) ==
    {r \in rows : /\ r.employeeId = input.employeeId
                  /\ r.date >= input.periodStart
                  /\ r.date <= input.periodEnd}

\* attendanceRecords.reduce((sum, record) => sum + (record.overtimeHours || 0), 0)
RECURSIVE totalOvertimeHours(_)
totalOvertimeHours(records) ==
    IF records = {} THEN 0
    ELSE LET record == CHOOSE r \in records : TRUE
         IN record.overtimeHours + totalOvertimeHours(records \ {record})

\* an overtime rate of twice the hourly salary
overtimePayDouble(hours, salary) == hours * (salary \div 160) * 2

\* totalOvertimeHours * (employee.salary / 160) * 1.5
overtimePay(hours, salary) == (hours * (salary \div 160) * 3) \div 2

\* JSON.parse(input.deductions) inside try/catch; absent and invalid give {}
deductionsObj(deductions) == IF deductions.kind = "object" THEN deductions.values ELSE <<>>

\* Object.values(deductionsObj).reduce((sum, val) => sum + (Number(val) || 0), 0)
RECURSIVE totalDeductionsFrom(_, _)
totalDeductionsFrom(values, i) ==
    IF i > Len(values) THEN 0
    ELSE (IF values[i].numeric THEN values[i].value ELSE 0) + totalDeductionsFrom(values, i + 1)

totalDeductions(deductions) == totalDeductionsFrom(deductionsObj(deductions), 1)

\* employee.salary + overtimePay - totalDeductions
netSalary(salary, overtime, deducted) == salary + overtime - deducted

NoPayroll ==
    [employeeId |-> "none", periodStart |-> 0, periodEnd |-> 0, baseSalary |-> 0,
     overtimePay |-> 0, deductions |-> [kind |-> "absent", values |-> <<>>],
     netSalary |-> 0, status |-> "none"]

\* the data of prisma.payroll.create
payrollData(salary, records, input) ==
    [employeeId |-> input.employeeId,
     periodStart |-> input.periodStart,
     periodEnd |-> input.periodEnd,
     baseSalary |-> salary,
     overtimePay |-> overtimePay(totalOvertimeHours(records), salary),
     deductions |-> input.deductions,
     netSalary |-> netSalary(salary, overtimePay(totalOvertimeHours(records), salary),
                             totalDeductions(input.deductions)),
     status |-> "Calculated"]

\* no calculatePayroll run yet
IdlePay ==
    [pc |-> "idle", salary |-> 1600, rows |-> {},
     input |-> [employeeId |-> "E2", periodStart |-> 1, periodEnd |-> 1,
                deductions |-> [kind |-> "absent", values |-> <<>>]],
     records |-> {}, result |-> "none", payroll |-> NoPayroll]

InitPay ==
    pay \in {[IdlePay EXCEPT !.salary = salary, !.rows = rows, !.input = input] :
                salary \in Salaries, rows \in AttendanceTables, input \in PayrollInputs}

\* employee.findUnique settles: "Employee not found", or findMany is awaited
PayFindEmployee ==
    /\ pay.pc = "idle"
    /\ pay' = IF pay.input.employeeId \in {"E1", "E2"}
              THEN [pay EXCEPT !.pc = "findMany"]
              ELSE [pay EXCEPT !.pc = "done", !.result = "Employee not found"]
    /\ UNCHANGED <<query, fin, turnVars>>

\* attendanceRecord.findMany settles; the amounts are computed; Object.values throws
\* on null; else payroll.create is awaited
PayFindAttendance ==
    /\ pay.pc = "findMany"
    /\ pay' = IF pay.input.deductions.kind = "null"
              THEN [pay EXCEPT !.pc = "done", !.result = "TypeError",
                               !.records = attendanceRecords(pay.rows, pay.input)]
              ELSE [pay EXCEPT !.pc = "create",
                               !.records = attendanceRecords(pay.rows, pay.input)]
    /\ UNCHANGED <<query, fin, turnVars>>

\* payroll.create settles with the stored row; logAction; the row is returned
PayCreate ==
    /\ pay.pc = "create"
    /\ pay' = [pay EXCEPT !.pc = "done", !.result = "ok",
                          !.payroll = payrollData(pay.salary, pay.records, pay.input)]
    /\ UNCHANGED <<query, fin, turnVars>>

NextPayroll == PayFindEmployee \/ PayFindAttendance \/ PayCreate

----------------------------------------------------------------------------
(* Tool registry (lib/hr/tools) *)

\* stopWhen: stepCountIs(5)
MaxSteps == 5

\* tool executions begun in one behaviour, over all turns
MaxToolCalls == 1

TurnIds == {"t1", "t2"}

NoId == "none"

\* `currentContext = null`
NullContext == [userId |-> NoUserId, role |-> "null"]

CreateTools ==
    {"createEmployee", "createContract", "generateLetter", "recordAttendance",
     "requestLeave", "addBenefit"}

UpdateTools ==
    {"updateEmployee", "archiveEmployee", "reactivateEmployee", "updateContract",
     "terminateContract", "updateAttendance", "approveLeave", "approvePayroll",
     "paySalary", "updateBenefit"}

ReadTools ==
    {"getEmployee", "getContract", "getLetters", "getAttendance", "getPayroll",
     "getBenefits", "getAuditLogs"}

HrTools == CreateTools \cup UpdateTools \cup ReadTools \cup {"calculatePayroll"}

\* the action each tool passes to requirePermission
ToolAction(tool) ==
    CASE tool \in CreateTools \cup {"calculatePayroll"} -> "create"
      [] tool \in {"approveLeave", "approvePayroll"} -> "approve"
      [] tool \in UpdateTools -> "update"
      [] OTHER -> "read"

\* the entity each tool passes to requirePermission
ToolEntity(tool) ==
    CASE tool \in {"createEmployee", "updateEmployee", "getEmployee", "archiveEmployee",
                   "reactivateEmployee"} -> "employee"
      [] tool \in {"createContract", "updateContract", "getContract",
                   "terminateContract"} -> "contract"
      [] tool \in {"generateLetter", "getLetters"} -> "letter"
      [] tool \in {"recordAttendance", "updateAttendance", "getAttendance", "approveLeave",
                   "requestLeave"} -> "attendance"
      [] tool \in {"calculatePayroll", "getPayroll", "approvePayroll",
                   "paySalary"} -> "payroll"
      [] tool \in {"addBenefit", "updateBenefit", "getBenefits"} -> "benefit"
      [] OTHER -> "user"

\* the entityType each tool passes to logAction, which is the kind of record it handles
ToolEntityType(tool) ==
    CASE ToolEntity(tool) = "employee" -> "Employee"
      [] ToolEntity(tool) = "contract" -> "Contract"
      [] ToolEntity(tool) = "letter" -> "AdministrativeLetter"
      [] ToolEntity(tool) = "attendance" -> "AttendanceRecord"
      [] ToolEntity(tool) = "payroll" -> "Payroll"
      [] ToolEntity(tool) = "benefit" -> "Benefit"
      [] OTHER -> "User"

\* tools whose `where` is the employeeId input
EmployeeKeyedTools == {"updateEmployee", "archiveEmployee", "reactivateEmployee", "getEmployee"}

NoInput == [employeeId |-> NoId, recordId |-> NoId, status |-> NoId]

\* the inputs the generation collaborator supplies (inputSchema of each tool)
ToolInputs(tool) ==
    CASE tool \in {"updateEmployee", "archiveEmployee", "reactivateEmployee",
                   "recordAttendance", "requestLeave"} ->
             {[NoInput EXCEPT !.employeeId = e] : e \in EmployeeIds}
      [] tool = "getEmployee" ->
             {[NoInput EXCEPT !.employeeId = e] : e \in EmployeeIds \cup {NoId}}
      [] tool \in {"createContract", "generateLetter", "addBenefit", "calculatePayroll",
                   "getLetters", "getAttendance", "getBenefits"} ->
             {[NoInput EXCEPT !.employeeId = "E2"]}
      [] tool = "getContract" ->
             {NoInput, [NoInput EXCEPT !.employeeId = "E2"]}
                \cup {[NoInput EXCEPT !.recordId = r] : r \in {"c2", "x9"}}
      [] tool = "getPayroll" ->
             {NoInput, [NoInput EXCEPT !.employeeId = "E2"], [NoInput EXCEPT !.recordId = "p2"]}
      [] tool = "updateContract" ->
             {[NoInput EXCEPT !.recordId = r] : r \in {"c2", "x9"}}
      [] tool = "terminateContract" -> {[NoInput EXCEPT !.recordId = "c2"]}
      [] tool = "updateAttendance" -> {[NoInput EXCEPT !.recordId = "a2"]}
      [] tool = "approveLeave" ->
             {[NoInput EXCEPT !.recordId = "a2", !.status = s] : s \in {"Approved", "Rejected"}}
      [] tool = "approvePayroll" ->
             {[NoInput EXCEPT !.recordId = "p2", !.status = s] : s \in {"Verified", "Approved"}}
      [] tool = "paySalary" -> {[NoInput EXCEPT !.recordId = "p2"]}
      [] tool = "updateBenefit" -> {[NoInput EXCEPT !.recordId = "b2"]}
      [] OTHER -> {NoInput}

\* the id in the tool's `where` clause
TargetId(tool, input) ==
    IF tool \in EmployeeKeyedTools THEN input.employeeId ELSE input.recordId

\* prisma at start: two employees and one record of every other kind, owned by E2
InitialDb ==
    [id \in {"E1", "E2", "c2", "l2", "a2", "p2", "b2"} |->
        CASE id \in EmployeeIds ->
               [kind |-> "Employee", employeeId |-> id, status |-> "Active", data |-> 0]
          [] id = "c2" -> [kind |-> "Contract", employeeId |-> "E2", status |-> "-", data |-> 0]
          [] id = "l2" ->
               [kind |-> "AdministrativeLetter", employeeId |-> "E2", status |-> "-", data |-> 0]
          [] id = "a2" ->
               [kind |-> "AttendanceRecord", employeeId |-> "E2", status |-> "Requested",
                data |-> 0]
          [] id = "p2" ->
               [kind |-> "Payroll", employeeId |-> "E2", status |-> "Calculated", data |-> 0]
          [] id = "b2" -> [kind |-> "Benefit", employeeId |-> "E2", status |-> "-", data |-> 0]]

\* generated record ids, in the order prisma hands them out
NewRecordIds == <<"n1", "n2", "n3", "n4">>

newRecordId(store) == NewRecordIds[Cardinality(DOMAIN store) - Cardinality(DOMAIN InitialDb) + 1]

\* the `data` of each prisma create
createdRecord(tool, input, id) ==
    [kind |-> ToolEntityType(tool),
     employeeId |-> IF tool = "createEmployee" THEN id ELSE input.employeeId,
     status |-> CASE tool = "createEmployee" -> "Onboarding"
                  [] tool = "requestLeave" -> "Requested"
                  [] tool = "calculatePayroll" -> "Calculated"
                  [] OTHER -> "-",
     data |-> 0]

\* the `data` of each prisma update applied to the stored record
updatedRecord(tool, input, rec) ==
    CASE tool = "archiveEmployee" -> [rec EXCEPT !.status = "Archived"]
      [] tool = "reactivateEmployee" -> [rec EXCEPT !.status = "Active"]
      [] tool = "approveLeave" -> [rec EXCEPT !.status = input.status]
      [] tool = "approvePayroll" ->
             [rec EXCEPT !.status = IF input.status = "Approved" THEN "Approved" ELSE "Verified"]
      [] tool = "paySalary" -> [rec EXCEPT !.status = "Paid"]
      [] OTHER -> [rec EXCEPT !.data = 1]

\* findMany({ where: { employeeId } }) on the tool's table
recordsOf(store, kind, employeeId) ==
    {id \in DOMAIN store : store[id].kind = kind /\ store[id].employeeId = employeeId}

requirePermissionNever(role, action, entity) == TRUE

\* requirePermission: TRUE when it returns, FALSE when it throws
requirePermission(role, action, entity) == checkPermission(role, action, entity)

\* a head-of-execute test that lets every role through
permittedAll(tool, ctx) == TRUE

\* the permission test at the head of each execute
permitted(tool, ctx) ==
    IF tool = "getAuditLogs" THEN ctx.role = "HR_Admin"
    ELSE requirePermission(ctx.role, ToolAction(tool), ToolEntity(tool))

NoEntry == [entityType |-> NoId, entityId |-> NoId, action |-> NoId, performedBy |-> NoId]

\* the row logAction writes
auditEntry(tool, id, action, ctx) ==
    [entityType |-> ToolEntityType(tool), entityId |-> id, action |-> action,
     performedBy |-> ctx.userId]

\* prisma.auditLog at start: the row written when E2's record was created
InitialAuditLog ==
    <<[entityType |-> "Employee", entityId |-> "E2", action |-> "Create",
       performedBy |-> "A1"]>>

IdleCall ==
    [pc |-> "idle", tool |-> NoId, input |-> NoInput, ctx |-> NullContext, result |-> NoId,
     returned |-> {}, entry |-> NoEntry, touched |-> FALSE, ownChecked |-> FALSE,
     wrote |-> FALSE, audited |-> FALSE, logs |-> <<>>]

----------------------------------------------------------------------------
(* Conversation store (lib/db) and the requests *)

\* the credential of a request: the user id its token names, or none
NoToken == "none"

Tokens == {"E1", "A1", "X9", NoToken}

NoUser == [id |-> NoId, role |-> NoId]

\* the conversation stored before any turn
InitialChats == [c \in {"c1"} |-> <<[id |-> 1, text |-> "a"]>>]

\* generated conversation ids, in the order createChat hands them out
NewChatIds == <<"k1", "k2", "k3">>

\* createChat: the id of the conversation it adds, with no messages
createChat(store) == NewChatIds[Cardinality(DOMAIN store) - Cardinality(DOMAIN InitialChats) + 1]

\* no earlier response of a resumption client
NoResponse == [chatId |-> NoId, status |-> 0, body |-> <<>>, epoch |-> {}]

\* a request waiting to be handled: credential, body.id, body.messages
IdleTurn(token, chatId, messages) ==
    [pc |-> "idle", token |-> token, chatId |-> chatId, messages |-> messages,
     user |-> NoUser, currentChatId |-> NoId, isNewChat |-> FALSE,
     previousMessages |-> <<>>, validatedMessages |-> <<>>, deduped |-> <<>>,
     steps |-> 0, status |-> 0, header |-> NoId,
     method |-> "POST", connected |-> TRUE, saved |-> FALSE,
     gets |-> 0, loaded |-> FALSE, body |-> <<>>, epoch |-> {}, prev |-> NoResponse,
     loadFailed |-> FALSE, validation |-> "none", initAdminPass |-> NoId]

\* the requests of Spec: an Employee's turn on a new conversation and an
\* administrator's turn on the stored one, each possibly without a usable credential
ToolTurnRequests(t) ==
    IF t = "t1"
    THEN {IdleTurn(token, NoId, <<[id |-> 2, text |-> "b"]>>) : token \in {"E1", NoToken}}
    ELSE {IdleTurn(token, "c1", <<[id |-> 2, text |-> "b"]>>) : token \in {"A1", "X9"}}

\* the bodies of the requests of SpecChat: ids missing, repeated, re-sent
ChatTurnRequests(t) ==
    {IdleTurn("E1", chatId, messages) :
        chatId \in {NoId, "c1", "c9"},
        messages \in {<<[id |-> 0, text |-> "a"]>>,
                      <<[id |-> 1, text |-> "b"]>>,
                      <<[id |-> 2, text |-> "a"], [id |-> 2, text |-> "b"]>>,
                      <<[id |-> 1, text |-> "a"], [id |-> 0, text |-> "b"]>>}}

ToolCallsMade == Cardinality({p \in TurnIds \X (1..MaxSteps) : p[2] <= turns[p[1]].steps})

----------------------------------------------------------------------------
(* POST /api/chat *)

\* getAuthUser, then prisma.user.findUnique is awaited
PostStart(t) ==
    /\ turns[t].pc = "idle"
    /\ turns[t].method = "POST"
    /\ turns' = [turns EXCEPT ![t] =
                    IF turns[t].token = NoToken
                    THEN [@ EXCEPT !.pc = "rejected", !.status = 401]
                    ELSE [@ EXCEPT !.pc = "findUser"]]
    /\ UNCHANGED <<query, fin, pay, users, currentContext, calls, db, auditLog, chats, nextUuid>>

\* a handler that binds the context from the credential before it has the user row
PostBindFromToken(t) ==
    /\ turns[t].pc = "findUser"
    /\ currentContext' = [userId |-> turns[t].token,
                          role |-> IF turns[t].token \in DOMAIN users
                                   THEN users[turns[t].token] ELSE "Employee"]
    /\ IF turns[t].token \notin DOMAIN users
       THEN turns' = [turns EXCEPT ![t] = [@ EXCEPT !.pc = "rejected", !.status = 401]]
       ELSE turns' = [turns EXCEPT ![t] =
                         [@ EXCEPT !.pc = "readBody",
                                   !.user = [id |-> turns[t].token,
                                             role |-> users[turns[t].token]]]]
    /\ UNCHANGED <<query, fin, pay, users, calls, db, auditLog, chats, nextUuid>>

\* the user row arrives; setToolContext; then req.json() is awaited
PostBind(t) ==
    /\ turns[t].pc = "findUser"
    /\ IF turns[t].token \notin DOMAIN users
       THEN /\ turns' = [turns EXCEPT ![t] = [@ EXCEPT !.pc = "rejected", !.status = 401]]
            /\ UNCHANGED currentContext
       ELSE /\ turns' = [turns EXCEPT ![t] =
                            [@ EXCEPT !.pc = "readBody",
                                      !.user = [id |-> turns[t].token,
                                                role |-> users[turns[t].token]]]]
            /\ currentContext' = [userId |-> turns[t].token, role |-> users[turns[t].token]]
    /\ UNCHANGED <<query, fin, pay, users, calls, db, auditLog, chats, nextUuid>>

\* the body arrives; createChat or loadChat(chatId) is awaited
PostReadBody(t) ==
    /\ turns[t].pc = "readBody"
    /\ turns' = [turns EXCEPT ![t] =
                    [@ EXCEPT !.pc = IF turns[t].chatId = NoId THEN "createChat"
                                     ELSE "verifyChat"]]
    /\ UNCHANGED <<query, fin, pay, users, currentContext, calls, db, auditLog, chats, nextUuid>>

\* createChat settles; on success validateUIMessages is awaited
PostCreateChat(t) ==
    /\ turns[t].pc = "createChat"
    /\ \E ok \in BOOLEAN :
          IF ok
          THEN /\ chats' = [c \in DOMAIN chats \cup {createChat(chats)} |->
                               IF c \in DOMAIN chats THEN chats[c] ELSE <<>>]
               /\ turns' = [turns EXCEPT ![t] =
                               [@ EXCEPT !.pc = "validate",
                                         !.currentChatId = createChat(chats),
                                         !.isNewChat = TRUE]]
          ELSE /\ turns' = [turns EXCEPT ![t] = [@ EXCEPT !.pc = "failed", !.status = 500]]
               /\ UNCHANGED chats
    /\ UNCHANGED <<query, fin, pay, users, currentContext, calls, db, auditLog, nextUuid>>

\* a verification that fails the turn when the supplied id does not resolve
PostVerifyChatStrict(t) ==
    /\ turns[t].pc = "verifyChat"
    /\ turns' = [turns EXCEPT ![t] =
                    IF turns[t].chatId \in DOMAIN chats
                    THEN [@ EXCEPT !.pc = "loadHistory", !.currentChatId = turns[t].chatId]
                    ELSE [@ EXCEPT !.pc = "failed", !.status = 404]]
    /\ UNCHANGED <<query, fin, pay, users, currentContext, calls, db, auditLog, chats, nextUuid>>

\* loadChat(chatId) settles: the id is used, or a new conversation is created instead
PostVerifyChat(t) ==
    /\ turns[t].pc = "verifyChat"
    /\ turns' = [turns EXCEPT ![t] =
                    IF turns[t].chatId \in DOMAIN chats
                    THEN [@ EXCEPT !.pc = "loadHistory", !.currentChatId = turns[t].chatId]
                    ELSE [@ EXCEPT !.pc = "createChat"]]
    /\ UNCHANGED <<query, fin, pay, users, currentContext, calls, db, auditLog, chats, nextUuid>>

\* a history load whose failure fails the turn
PostLoadHistoryFatal(t) ==
    /\ turns[t].pc = "loadHistory"
    /\ \E ok \in BOOLEAN :
          turns' = [turns EXCEPT ![t] =
                       IF ok /\ turns[t].currentChatId \in DOMAIN chats
                       THEN [@ EXCEPT !.pc = "validate",
                                      !.previousMessages = chats[turns[t].currentChatId]]
                       ELSE [@ EXCEPT !.pc = "failed", !.status = 500, !.loadFailed = TRUE]]
    /\ UNCHANGED <<query, fin, pay, users, currentContext, calls, db, auditLog, chats, nextUuid>>

\* loadChat(currentChatId) settles; a failure leaves the history empty
PostLoadHistory(t) ==
    /\ turns[t].pc = "loadHistory"
    /\ \E ok \in BOOLEAN :
          turns' = [turns EXCEPT ![t] =
                       [@ EXCEPT !.pc = "validate",
                                 !.loadFailed = ~(ok /\ turns[t].currentChatId
                                                          \in DOMAIN chats),
                                 !.previousMessages =
                                     IF ok /\ turns[t].currentChatId \in DOMAIN chats
                                     THEN chats[turns[t].currentChatId] ELSE <<>>]]
    /\ UNCHANGED <<query, fin, pay, users, currentContext, calls, db, auditLog, chats, nextUuid>>

\* a validation whose TypeValidationError fails the turn
PostValidateFatal(t) ==
    /\ turns[t].pc = "validate"
    /\ \E outcome \in {"valid", "TypeValidationError", "error"} :
          turns' = [turns EXCEPT ![t] =
                       CASE outcome = "valid" ->
                              [@ EXCEPT !.pc = "config", !.validation = outcome,
                                        !.validatedMessages =
                                            turns[t].previousMessages \o turns[t].messages]
                         [] OTHER -> [@ EXCEPT !.pc = "failed", !.status = 500,
                                               !.validation = outcome]]
    /\ UNCHANGED <<query, fin, pay, users, currentContext, calls, db, auditLog, chats, nextUuid>>

\* validateUIMessages settles; getEffectiveOpenAIConfig is awaited
PostValidate(t) ==
    /\ turns[t].pc = "validate"
    /\ \E outcome \in {"valid", "TypeValidationError", "error"} :
          turns' = [turns EXCEPT ![t] =
                       CASE outcome = "valid" ->
                              [@ EXCEPT !.pc = "config", !.validation = outcome,
                                        !.validatedMessages =
                                            turns[t].previousMessages \o turns[t].messages]
                         [] outcome = "TypeValidationError" ->
                              [@ EXCEPT !.pc = "config", !.validation = outcome,
                                        !.validatedMessages = turns[t].messages]
                         [] OTHER -> [@ EXCEPT !.pc = "failed", !.status = 500,
                                               !.validation = outcome]]
    /\ UNCHANGED <<query, fin, pay, users, currentContext, calls, db, auditLog, chats, nextUuid>>

\* streamText starts and the streamed response is returned; the handler has left
\* the try/catch around validateUIMessages
PostStream(t) ==
    /\ turns[t].pc = "config"
    /\ turns' = [turns EXCEPT ![t] =
                    [@ EXCEPT !.pc = "generating", !.status = 200, !.validation = "none",
                              !.header = IF turns[t].isNewChat THEN turns[t].currentChatId
                                         ELSE NoId]]
    /\ UNCHANGED <<query, fin, pay, users, currentContext, calls, db, auditLog, chats, nextUuid>>

\* a finalize that runs only while the client is still connected
OnFinishWhileConnected(t) ==
    /\ turns[t].pc = "generating"
    /\ calls[t].pc = "idle"
    /\ turns[t].connected
    /\ LET response == [id |-> randomUUID(nextUuid), text |-> "r"]
           messages == turns[t].validatedMessages \o <<response>>
       IN /\ turns' = [turns EXCEPT ![t] =
                          [@ EXCEPT !.pc = "saving",
                                    !.deduped = dedupe(normalize(messages, nextUuid + 1))]]
          /\ nextUuid' = nextUuid + 1 + missingIds(messages)
    /\ UNCHANGED <<query, fin, pay, users, currentContext, calls, db, auditLog, chats>>

\* generation ends; onFinish normalizes, de-duplicates and awaits saveChat
OnFinish(t) ==
    /\ turns[t].pc = "generating"
    /\ calls[t].pc = "idle"
    /\ LET response == [id |-> randomUUID(nextUuid), text |-> "r"]
           messages == turns[t].validatedMessages \o <<response>>
       IN /\ turns' = [turns EXCEPT ![t] =
                          [@ EXCEPT !.pc = "saving",
                                    !.deduped = dedupe(normalize(messages, nextUuid + 1))]]
          /\ nextUuid' = nextUuid + 1 + missingIds(messages)
    /\ UNCHANGED <<query, fin, pay, users, currentContext, calls, db, auditLog, chats>>

\* an onFinish that lets the failure of saveChat escape and fail the turn
PostSaveChatFatal(t) ==
    /\ turns[t].pc = "saving"
    /\ \E ok \in BOOLEAN :
          IF ok /\ turns[t].currentChatId \in DOMAIN chats
          THEN /\ chats' = [chats EXCEPT ![turns[t].currentChatId] =
                               saveChat(@, turns[t].deduped)]
               /\ turns' = [turns EXCEPT ![t] = [@ EXCEPT !.pc = "done", !.saved = TRUE]]
          ELSE /\ chats' = chats
               /\ turns' = [turns EXCEPT ![t] = [@ EXCEPT !.pc = "failed", !.status = 500]]
    /\ UNCHANGED <<query, fin, pay, users, currentContext, calls, db, auditLog, nextUuid>>

\* a save that stores the turn's messages in place of the stored sequence
PostSaveChatReplacing(t) ==
    /\ turns[t].pc = "saving"
    /\ \E ok \in BOOLEAN :
          /\ chats' = IF ok /\ turns[t].currentChatId \in DOMAIN chats
                      THEN [chats EXCEPT ![turns[t].currentChatId] = turns[t].deduped]
                      ELSE chats
          /\ turns' = [turns EXCEPT ![t] =
                          [@ EXCEPT !.pc = "done",
                                    !.saved = ok /\ turns[t].currentChatId \in DOMAIN chats]]
    /\ UNCHANGED <<query, fin, pay, users, currentContext, calls, db, auditLog, nextUuid>>

\* saveChat settles; a failure is logged only
PostSaveChat(t) ==
    /\ turns[t].pc = "saving"
    /\ \E ok \in BOOLEAN :
          /\ chats' = IF ok /\ turns[t].currentChatId \in DOMAIN chats
                      THEN [chats EXCEPT ![turns[t].currentChatId] =
                               saveChat(@, turns[t].deduped)]
                      ELSE chats
          /\ turns' = [turns EXCEPT ![t] =
                          [@ EXCEPT !.pc = "done",
                                    !.saved = ok /\ turns[t].currentChatId \in DOMAIN chats]]
    /\ UNCHANGED <<query, fin, pay, users, currentContext, calls, db, auditLog, nextUuid>>

----------------------------------------------------------------------------
(* Tool execution: execute() of each tool, one action per stretch between awaits *)

\* getToolContext
getToolContext == currentContext

\* a tool that returns or throws without another await
settled(call, result) == [call EXCEPT !.pc = "done", !.result = result]

\* a generation loop without stopWhen: execute() starts whatever the step count
ToolBeginUncapped(t, tools, maxCalls) ==
    /\ turns[t].pc = "generating"
    /\ calls[t].pc = "idle"
    /\ ToolCallsMade < maxCalls
    /\ \E tool \in tools : \E input \in ToolInputs(tool) :
          LET ctx == getToolContext
              call == [IdleCall EXCEPT !.tool = tool, !.input = input, !.ctx = ctx]
          IN calls' = [calls EXCEPT ![t] =
                CASE ctx = NullContext -> settled(call, "Tool context not set")
                  [] ~permitted(tool, ctx) -> settled(call, "Unauthorized")
                  [] tool = "updateEmployee"
                       /\ ~canAccessEmployee(ctx.role, input.employeeId, ctx.userId) ->
                         settled(call, "Unauthorized")
                  [] tool \in {"getContract", "getPayroll"} /\ input = NoInput ->
                         settled(call, "ok")
                  [] OTHER ->
                         [call EXCEPT !.pc = "db", !.touched = TRUE,
                                      !.ownChecked = (tool = "updateEmployee")]]
    /\ turns' = [turns EXCEPT ![t] = [@ EXCEPT !.steps = @ + 1]]
    /\ UNCHANGED <<query, fin, pay, users, currentContext, db, auditLog, chats, nextUuid>>

\* execute() of one of `tools` starts: getToolContext, the permission check, the
\* synchronous checks after it, and the first prisma call is issued
ToolBeginWith(t, tools, maxCalls) ==
    /\ turns[t].pc = "generating"
    /\ calls[t].pc = "idle"
    /\ turns[t].steps < MaxSteps
    /\ ToolCallsMade < maxCalls
    /\ \E tool \in tools : \E input \in ToolInputs(tool) :
          LET ctx == getToolContext
              call == [IdleCall EXCEPT !.tool = tool, !.input = input, !.ctx = ctx]
          IN calls' = [calls EXCEPT ![t] =
                CASE ctx = NullContext -> settled(call, "Tool context not set")
                  [] ~permitted(tool, ctx) -> settled(call, "Unauthorized")
                  [] tool = "updateEmployee"
                       /\ ~canAccessEmployee(ctx.role, input.employeeId, ctx.userId) ->
                         settled(call, "Unauthorized")
                  [] tool \in {"getContract", "getPayroll"} /\ input = NoInput ->
                         settled(call, "ok")
                  [] OTHER ->
                         [call EXCEPT !.pc = "db", !.touched = TRUE,
                                      !.ownChecked = (tool = "updateEmployee")]]
    /\ turns' = [turns EXCEPT ![t] = [@ EXCEPT !.steps = @ + 1]]
    /\ UNCHANGED <<query, fin, pay, users, currentContext, db, auditLog, chats, nextUuid>>

\* the generation collaborator calls any tool of the catalog
ToolBegin(t) == ToolBeginWith(t, HrTools, MaxToolCalls)

\* a prisma create settles: the row is stored and logAction is awaited, or the create
\* is rejected (a constraint, the store) and execute throws
ToolCreate(t) ==
    /\ \/ calls[t].pc = "db" /\ calls[t].tool \in CreateTools
       \/ calls[t].pc = "db3"
    /\ LET call == calls[t]
           id == newRecordId(db)
       IN \E ok \in BOOLEAN :
             IF ok
             THEN /\ db' = [r \in DOMAIN db \cup {id} |->
                               IF r \in DOMAIN db THEN db[r]
                               ELSE createdRecord(call.tool, call.input, id)]
                  /\ calls' = [calls EXCEPT ![t] =
                                  [call EXCEPT !.pc = "audit", !.wrote = TRUE,
                                               !.returned = {id},
                                               !.entry = auditEntry(call.tool, id, "Create",
                                                                    call.ctx)]]
             ELSE /\ calls' = [calls EXCEPT ![t] = settled(call, "error")]
                  /\ UNCHANGED db
    /\ UNCHANGED <<query, fin, pay, users, currentContext, turns, auditLog, chats, nextUuid>>

\* an update tool that records the audit entry although its update was rejected
ToolUpdateAuditingFailure(t) ==
    /\ calls[t].pc = "db"
    /\ calls[t].tool \in UpdateTools
    /\ LET call == calls[t]
           id == TargetId(call.tool, call.input)
       IN IF id \in DOMAIN db /\ db[id].kind = ToolEntityType(call.tool)
          THEN /\ db' = [db EXCEPT ![id] = updatedRecord(call.tool, call.input, @)]
               /\ calls' = [calls EXCEPT ![t] =
                               [call EXCEPT !.pc = "audit", !.wrote = TRUE, !.returned = {id},
                                            !.entry = auditEntry(call.tool, id, "Update",
                                                                 call.ctx)]]
          ELSE /\ calls' = [calls EXCEPT ![t] =
                               [call EXCEPT !.pc = "audit",
                                            !.entry = auditEntry(call.tool, id, "Update",
                                                                 call.ctx)]]
               /\ UNCHANGED db
    /\ UNCHANGED <<query, fin, pay, users, currentContext, turns, auditLog, chats, nextUuid>>

\* a prisma update settles; logAction is awaited
ToolUpdate(t) ==
    /\ calls[t].pc = "db"
    /\ calls[t].tool \in UpdateTools
    /\ LET call == calls[t]
           id == TargetId(call.tool, call.input)
       IN IF id \in DOMAIN db /\ db[id].kind = ToolEntityType(call.tool)
          THEN /\ db' = [db EXCEPT ![id] = updatedRecord(call.tool, call.input, @)]
               /\ calls' = [calls EXCEPT ![t] =
                               [call EXCEPT !.pc = "audit", !.wrote = TRUE, !.returned = {id},
                                            !.entry = auditEntry(call.tool, id, "Update",
                                                                 call.ctx)]]
          ELSE /\ calls' = [calls EXCEPT ![t] = settled(call, "error")]
               /\ UNCHANGED db
    /\ UNCHANGED <<query, fin, pay, users, currentContext, turns, auditLog, chats, nextUuid>>

\* the records a read tool's query returns
queried(call) ==
    CASE call.tool = "getEmployee" ->
           {id \in DOMAIN db : db[id].kind = "Employee"
                               /\ canAccessEmployee(call.ctx.role, id, call.ctx.userId)}
      [] call.tool = "getAuditLogs" -> {}
      [] call.input.recordId # NoId ->
           {id \in DOMAIN db : id = call.input.recordId
                               /\ db[id].kind = ToolEntityType(call.tool)}
      [] OTHER -> recordsOf(db, ToolEntityType(call.tool), call.input.employeeId)

\* a read tool that stamps the employee record it returns
ToolReadStamping(t) ==
    /\ calls[t].pc = "db"
    /\ calls[t].tool \in ReadTools
    /\ LET call == calls[t]
           id == call.input.employeeId
       IN /\ calls' = [calls EXCEPT ![t] =
                CASE call.tool = "getEmployee" /\ id # NoId ->
                       IF ~(id \in DOMAIN db /\ db[id].kind = "Employee")
                       THEN settled(call, "not found")
                       ELSE IF ~canAccessEmployee(call.ctx.role, id, call.ctx.userId)
                       THEN settled(call, "Unauthorized")
                       ELSE [call EXCEPT !.pc = "audit", !.ownChecked = TRUE,
                                         !.returned = {id},
                                         !.entry = auditEntry(call.tool, id, "Read", call.ctx)]
                  [] call.input.recordId # NoId /\ queried(call) = {} ->
                       settled(call, "not found")
                  [] call.tool = "getAuditLogs" ->
                       [settled(call, "ok") EXCEPT !.logs = auditLog]
                  [] OTHER -> [settled(call, "ok") EXCEPT !.returned = queried(call)]]
          /\ db' = IF call.tool = "getEmployee" /\ id \in DOMAIN db
                   THEN [db EXCEPT ![id] = [@ EXCEPT !.data = 1]]
                   ELSE db
    /\ UNCHANGED <<query, fin, pay, users, currentContext, turns, auditLog, chats, nextUuid>>

\* the query of a read tool settles
ToolRead(t) ==
    /\ calls[t].pc = "db"
    /\ calls[t].tool \in ReadTools
    /\ LET call == calls[t]
           id == call.input.employeeId
       IN calls' = [calls EXCEPT ![t] =
             CASE call.tool = "getEmployee" /\ id # NoId ->
                    IF ~(id \in DOMAIN db /\ db[id].kind = "Employee")
                    THEN settled(call, "not found")
                    ELSE IF ~canAccessEmployee(call.ctx.role, id, call.ctx.userId)
                    THEN settled(call, "Unauthorized")
                    ELSE [call EXCEPT !.pc = "audit", !.ownChecked = TRUE, !.returned = {id},
                                      !.entry = auditEntry(call.tool, id, "Read", call.ctx)]
               [] call.input.recordId # NoId /\ queried(call) = {} ->
                    settled(call, "not found")
               [] call.tool = "getAuditLogs" -> [settled(call, "ok") EXCEPT !.logs = auditLog]
               [] OTHER -> [settled(call, "ok") EXCEPT !.returned = queried(call)]]
    /\ UNCHANGED <<query, fin, pay, users, currentContext, turns, db, auditLog, chats, nextUuid>>

\* calculatePayroll: employee.findUnique settles, then attendanceRecord.findMany
ToolPayrollLookup(t) ==
    /\ calls[t].tool = "calculatePayroll"
    /\ calls[t].pc \in {"db", "db2"}
    /\ LET call == calls[t]
           id == call.input.employeeId
       IN calls' = [calls EXCEPT ![t] =
             IF call.pc = "db2" THEN [call EXCEPT !.pc = "db3"]
             ELSE IF id \in DOMAIN db /\ db[id].kind = "Employee"
             THEN [call EXCEPT !.pc = "db2"]
             ELSE settled(call, "error")]
    /\ UNCHANGED <<query, fin, pay, users, currentContext, turns, db, auditLog, chats, nextUuid>>

\* a recorder that keeps only the newest entry
ToolAuditOverwriting(t) ==
    /\ calls[t].pc = "audit"
    /\ \E ok \in BOOLEAN :
          /\ auditLog' = IF ok THEN <<calls[t].entry>> ELSE auditLog
          /\ calls' = [calls EXCEPT ![t] = [settled(calls[t], "ok") EXCEPT !.audited = ok]]
    /\ UNCHANGED <<query, fin, pay, users, currentContext, turns, db, chats, nextUuid>>

\* a recorder whose failure is thrown into the tool and replaces its result
ToolAuditThrowing(t) ==
    /\ calls[t].pc = "audit"
    /\ \E ok \in BOOLEAN :
          /\ auditLog' = IF ok THEN Append(auditLog, calls[t].entry) ELSE auditLog
          /\ calls' = [calls EXCEPT ![t] =
                          [settled(calls[t], IF ok THEN "ok" ELSE "error")
                              EXCEPT !.audited = ok]]
    /\ UNCHANGED <<query, fin, pay, users, currentContext, turns, db, chats, nextUuid>>

\* logAction settles: the row is written, or the failure is logged; execute returns
ToolAudit(t) ==
    /\ calls[t].pc = "audit"
    /\ \E ok \in BOOLEAN :
          /\ auditLog' = IF ok THEN Append(auditLog, calls[t].entry) ELSE auditLog
          /\ calls' = [calls EXCEPT ![t] = [settled(calls[t], "ok") EXCEPT !.audited = ok]]
    /\ UNCHANGED <<query, fin, pay, users, currentContext, turns, db, chats, nextUuid>>

\* the result goes back into the generation
ToolResult(t) ==
    /\ calls[t].pc = "done"
    /\ calls' = [calls EXCEPT ![t] = IdleCall]
    /\ UNCHANGED <<query, fin, pay, users, currentContext, turns, db, auditLog, chats, nextUuid>>

----------------------------------------------------------------------------
(* GET /api/chat: resumption *)

\* responses one resumption client asks for
MaxGets == 2

\* the chatId parameter a client can send: none, a stored id, an unknown id, or an
\* id it was given in an X-Chat-Id header
GetChatIds == {NoId, "c1", "c9"} \cup {turns[u].header : u \in TurnIds}

\* the POST turns whose saveChat has succeeded
SavedTurns == {u \in TurnIds : turns[u].saved}

\* searchParams.get('chatId'); without it 400, else loadChat is awaited
GetStart(t) ==
    /\ turns[t].pc = "idle"
    /\ turns[t].method = "GET"
    /\ turns[t].gets < MaxGets
    /\ \E chatId \in GetChatIds :
          turns' = [turns EXCEPT ![t] =
                       [@ EXCEPT !.chatId = chatId,
                                 !.gets = @ + 1,
                                 !.pc = IF chatId = NoId THEN "responded" ELSE "loadChat",
                                 !.status = IF chatId = NoId THEN 400 ELSE 0]]
    /\ UNCHANGED <<query, fin, pay, users, currentContext, calls, db, auditLog, chats, nextUuid>>

\* a GET handler that answers 401 to a caller without a stored user
GetLoadAuthenticated(t) ==
    /\ turns[t].pc = "loadChat"
    /\ turns' = [turns EXCEPT ![t] =
                    IF turns[t].token \notin DOMAIN users
                    THEN [@ EXCEPT !.pc = "responded", !.loaded = TRUE, !.epoch = SavedTurns,
                                   !.status = 401]
                    ELSE IF turns[t].chatId \in DOMAIN chats
                    THEN [@ EXCEPT !.pc = "responded", !.loaded = TRUE, !.epoch = SavedTurns,
                                   !.status = 200, !.body = chats[turns[t].chatId]]
                    ELSE [@ EXCEPT !.pc = "responded", !.loaded = TRUE, !.epoch = SavedTurns,
                                   !.status = 404]]
    /\ UNCHANGED <<query, fin, pay, users, currentContext, calls, db, auditLog, chats, nextUuid>>

\* a load that creates the conversation it does not find
GetLoadCreating(t) ==
    /\ turns[t].pc = "loadChat"
    /\ chats' = [c \in DOMAIN chats \cup {turns[t].chatId} |->
                    IF c \in DOMAIN chats THEN chats[c] ELSE <<>>]
    /\ turns' = [turns EXCEPT ![t] =
                    [@ EXCEPT !.pc = "responded", !.loaded = TRUE, !.epoch = SavedTurns,
                              !.status = 200, !.body = chats'[turns[t].chatId]]]
    /\ UNCHANGED <<query, fin, pay, users, currentContext, calls, db, auditLog, nextUuid>>

\* a load that answers an unknown id with an empty sequence
GetLoadEmpty(t) ==
    /\ turns[t].pc = "loadChat"
    /\ turns' = [turns EXCEPT ![t] =
                    [@ EXCEPT !.pc = "responded", !.loaded = TRUE, !.epoch = SavedTurns,
                              !.status = 200,
                              !.body = IF turns[t].chatId \in DOMAIN chats
                                       THEN chats[turns[t].chatId] ELSE <<>>]]
    /\ UNCHANGED <<query, fin, pay, users, currentContext, calls, db, auditLog, chats, nextUuid>>

\* loadChat settles: the stored messages are returned, or 404
GetLoad(t) ==
    /\ turns[t].pc = "loadChat"
    /\ turns' = [turns EXCEPT ![t] =
                    IF turns[t].chatId \in DOMAIN chats
                    THEN [@ EXCEPT !.pc = "responded", !.loaded = TRUE, !.epoch = SavedTurns,
                                   !.status = 200, !.body = chats[turns[t].chatId]]
                    ELSE [@ EXCEPT !.pc = "responded", !.loaded = TRUE, !.epoch = SavedTurns,
                                   !.status = 404]]
    /\ UNCHANGED <<query, fin, pay, users, currentContext, calls, db, auditLog, chats, nextUuid>>

\* the client, having its response, prepares another GET
GetAgain(t) ==
    /\ turns[t].pc = "responded"
    /\ turns[t].gets < MaxGets
    /\ turns' = [turns EXCEPT ![t] =
                    [@ EXCEPT !.pc = "idle", !.status = 0, !.body = <<>>, !.loaded = FALSE,
                              !.epoch = {}, !.chatId = NoId,
                              !.prev = [chatId |-> turns[t].chatId,
                                        status |-> turns[t].status,
                                        body |-> turns[t].body,
                                        epoch |-> turns[t].epoch]]]
    /\ UNCHANGED <<query, fin, pay, users, currentContext, calls, db, auditLog, chats, nextUuid>>

\* a resumption client that has not sent anything
IdleGet == [IdleTurn(NoToken, NoId, <<>>) EXCEPT !.method = "GET"]

\* the POST bodies of SpecResume: new messages with distinct, missing and repeated ids
ResumeTurnRequests ==
    {IdleTurn("E1", chatId, messages) :
        chatId \in {NoId, "c1"},
        messages \in {<<[id |-> 1, text |-> "a"], [id |-> 2, text |-> "b"]>>,
                      <<[id |-> 0, text |-> "a"], [id |-> 0, text |-> "b"]>>,
                      <<[id |-> 2, text |-> "a"], [id |-> 2, text |-> "b"]>>,
                      <<[id |-> 2, text |-> "a"], [id |-> 2, text |-> "b"],
                        [id |-> 2, text |-> "a"]>>}}

----------------------------------------------------------------------------
(* The client of a POST turn *)

\* the requests of SpecAccess: a POST of either user on a new or the stored
\* conversation, and a resumption client with any credential or none
AccessRequests(t) ==
    IF t = "t1"
    THEN {IdleTurn(token, chatId, <<[id |-> 2, text |-> "b"]>>) :
             token \in {"E1", "A1"}, chatId \in {NoId, "c1"}}
    ELSE {[IdleTurn(token, NoId, <<>>) EXCEPT !.method = "GET"] : token \in Tokens}

\* tool executions begun in one behaviour of SpecLive, over all turns
MaxLiveCalls == 1

\* the tools the generation calls in SpecLive
LiveTools == {"createEmployee", "getEmployee"}

\* the connection delivering the streamed response is closed by the client
ClientDisconnect(t) ==
    /\ turns[t].method = "POST"
    /\ turns[t].pc \in {"generating", "saving"}
    /\ turns[t].connected
    /\ turns' = [turns EXCEPT ![t] = [@ EXCEPT !.connected = FALSE]]
    /\ UNCHANGED <<query, fin, pay, users, currentContext, calls, db, auditLog, chats, nextUuid>>

----------------------------------------------------------------------------
(* Specifications *)

\* tool executions begun in one behaviour of SpecSteps, over all turns: more than
\* stepCountIs allows one turn
MaxStepCalls == 6

\* the tool the generation requests at every step in SpecSteps
StepTools == {"getAuditLogs"}

\* tool executions begun in one behaviour of SpecStatus, over all turns
MaxStatusCalls == 2

\* the tools that set a payroll record's status
StatusTools == {"calculatePayroll", "approvePayroll", "paySalary"}

----------------------------------------------------------------------------
(* POST /api/create-admin *)

\* prisma.user before the first administrator exists
NoUsers == [u \in {} |-> "HR_Admin"]

\* the create-admin requests: an email (the key of the user row) and the initial
\* admin password, which matches INIT_ADMIN_PASS or not
CreateAdminRequests(t) ==
    {[IdleTurn(email, NoId, <<>>) EXCEPT !.method = "create-admin", !.initAdminPass = p] :
        email \in IF t = "t1" THEN {"A1"} ELSE {"A1", "E1"},
        p \in {"correct", "wrong"}}

\* the status the handler returns
adminResponse(turn, status) == [turn EXCEPT !.pc = "responded", !.status = status]

\* req.json() settles; prisma.user.count() is awaited
CreateAdminStart(t) ==
    /\ turns[t].method = "create-admin"
    /\ turns[t].pc = "idle"
    /\ turns' = [turns EXCEPT ![t] = [@ EXCEPT !.pc = "count"]]
    /\ UNCHANGED <<query, fin, pay, users, currentContext, calls, db, auditLog, chats, nextUuid>>

\* the count arrives: 403 when a user exists or the password is wrong, otherwise
\* prisma.user.findUnique({ where: { email } }) is awaited
CreateAdminCount(t) ==
    /\ turns[t].method = "create-admin"
    /\ turns[t].pc = "count"
    /\ turns' = [turns EXCEPT ![t] =
                    IF Cardinality(DOMAIN users) > 0 THEN adminResponse(@, 403)
                    ELSE IF turns[t].initAdminPass # "correct" THEN adminResponse(@, 403)
                    ELSE [@ EXCEPT !.pc = "findUnique"]]
    /\ UNCHANGED <<query, fin, pay, users, currentContext, calls, db, auditLog, chats, nextUuid>>

\* the lookup by email arrives: 409 when the email is taken, otherwise hashPassword
\* is awaited
CreateAdminFindUnique(t) ==
    /\ turns[t].method = "create-admin"
    /\ turns[t].pc = "findUnique"
    /\ turns' = [turns EXCEPT ![t] =
                    IF turns[t].token \in DOMAIN users THEN adminResponse(@, 409)
                    ELSE [@ EXCEPT !.pc = "hashPassword"]]
    /\ UNCHANGED <<query, fin, pay, users, currentContext, calls, db, auditLog, chats, nextUuid>>

\* the hash arrives; prisma.user.create is awaited
CreateAdminHash(t) ==
    /\ turns[t].method = "create-admin"
    /\ turns[t].pc = "hashPassword"
    /\ turns' = [turns EXCEPT ![t] = [@ EXCEPT !.pc = "create"]]
    /\ UNCHANGED <<query, fin, pay, users, currentContext, calls, db, auditLog, chats, nextUuid>>

\* prisma.user.create settles: the HR_Admin row is stored and 201 returned, or the
\* unique email is taken by now and the catch returns 500
CreateAdminCreate(t) ==
    /\ turns[t].method = "create-admin"
    /\ turns[t].pc = "create"
    /\ IF turns[t].token \in DOMAIN users
       THEN /\ turns' = [turns EXCEPT ![t] = adminResponse(@, 500)]
            /\ UNCHANGED users
       ELSE /\ users' = [u \in DOMAIN users \cup {turns[t].token} |->
                            IF u = turns[t].token THEN "HR_Admin" ELSE users[u]]
            /\ turns' = [turns EXCEPT ![t] = adminResponse(@, 201)]
    /\ UNCHANGED <<query, fin, pay, currentContext, calls, db, auditLog, chats, nextUuid>>

MaxRoleCalls == 1

\* the tool called in SpecRoles
RoleTools == {"approvePayroll"}

\* the roles prisma.user holds at the start of SpecRoles: A1 is an administrator,
\* E1 has any role of the enum
StoredRoles == {[InitialUsers EXCEPT !["E1"] = r] : r \in UserRole}

\* the requests of SpecRoles: two turns of E1, one on a new conversation and one on
\* the stored one
RoleTurnRequests(t) ==
    {IdleTurn("E1", IF t = "t1" THEN NoId ELSE "c1", <<[id |-> 2, text |-> "b"]>>)}

----------------------------------------------------------------------------
(* PATCH /api/admin/users *)

\* the whole handler for an administrator `caller` and a stored `userId`: the target's
\* role is read, toggled between HR_Admin and Employee, and written; every other
\* request is answered 401, 403, 404 or 400 and changes nothing
AdminUsersPatch(caller, userId) ==
    /\ caller \in DOMAIN users
    /\ users[caller] = "HR_Admin"
    /\ userId \in DOMAIN users
    /\ users' = [users EXCEPT ![userId] = IF @ = "HR_Admin" THEN "Employee" ELSE "HR_Admin"]
    /\ UNCHANGED <<query, fin, pay, currentContext, turns, calls, db, auditLog, chats, nextUuid>>

QuietTurns ==
    /\ users = InitialUsers
    /\ currentContext = NullContext
    /\ turns = [t \in TurnIds |-> IdleTurn(NoToken, NoId, <<>>)]
    /\ calls = [t \in TurnIds |-> IdleCall]
    /\ db = InitialDb
    /\ auditLog = InitialAuditLog
    /\ chats = InitialChats
    /\ nextUuid = 0

InitPolicy == InitQuery /\ fin = IdleFin /\ pay = IdlePay /\ QuietTurns

InitDedup == query = IdleQuery /\ InitFin /\ pay = IdlePay /\ QuietTurns

InitStores ==
    /\ query = IdleQuery
    /\ fin = IdleFin
    /\ pay = IdlePay
    /\ users = InitialUsers
    /\ currentContext = NullContext
    /\ calls = [t \in TurnIds |-> IdleCall]
    /\ db = InitialDb
    /\ auditLog = InitialAuditLog
    /\ chats = InitialChats
    /\ nextUuid = 0

Init ==
    /\ InitStores
    /\ turns \in [TurnIds -> UNION {ToolTurnRequests(t) : t \in TurnIds}]
    /\ \A t \in TurnIds : turns[t] \in ToolTurnRequests(t)

InitChat == InitStores /\ turns \in [TurnIds -> UNION {ChatTurnRequests(t) : t \in TurnIds}]

PostStep(t) ==
    \/ PostStart(t)
    \/ PostBind(t)
    \/ PostReadBody(t)
    \/ PostCreateChat(t)
    \/ PostVerifyChat(t)
    \/ PostLoadHistory(t)
    \/ PostValidate(t)
    \/ PostStream(t)
    \/ OnFinish(t)
    \/ PostSaveChat(t)

ToolStep(t) ==
    \/ ToolBegin(t)
    \/ ToolCreate(t)
    \/ ToolUpdate(t)
    \/ ToolRead(t)
    \/ ToolPayrollLookup(t)
    \/ ToolAudit(t)
    \/ ToolResult(t)

Next == \E t \in TurnIds : PostStep(t) \/ ToolStep(t)

NextChat == \E t \in TurnIds : PostStep(t)

Spec == Init /\ [][Next]_vars

SpecChat == InitChat /\ [][NextChat]_vars

\* a POST turn t1 and a resumption client t2
InitResume ==
    /\ InitStores
    /\ turns \in [TurnIds -> ResumeTurnRequests \cup {IdleGet}]
    /\ turns["t1"] \in ResumeTurnRequests
    /\ turns["t2"] = IdleGet

GetStep(t) == GetStart(t) \/ GetLoad(t) \/ GetAgain(t)

NextResume == \E t \in TurnIds : PostStep(t) \/ GetStep(t)

SpecResume == InitResume /\ [][NextResume]_vars

\* POST turns whose clients may disconnect; the event loop runs every handler and
\* tool continuation that is ready, and result.consumeStream() drains the stream
\* the generation calls a create tool and a read tool, up to MaxLiveCalls times
LiveToolStep(t) ==
    \/ ToolBeginWith(t, LiveTools, MaxLiveCalls)
    \/ ToolCreate(t)
    \/ ToolRead(t)
    \/ ToolAudit(t)
    \/ ToolResult(t)

NextLive == \E t \in TurnIds : PostStep(t) \/ LiveToolStep(t) \/ ClientDisconnect(t)

SpecLive ==
    /\ Init
    /\ [][NextLive]_vars
    /\ \A t \in TurnIds : WF_vars(PostStep(t) \/ LiveToolStep(t))

\* POST turns whose generation requests a tool call at every step it is given; the
\* event loop runs every handler and tool continuation that is ready
StepToolStep(t) ==
    \/ ToolBeginWith(t, StepTools, MaxStepCalls)
    \/ ToolRead(t)
    \/ ToolResult(t)

NextSteps == \E t \in TurnIds : PostStep(t) \/ StepToolStep(t)

SpecSteps ==
    /\ Init
    /\ [][NextSteps]_vars
    /\ \A t \in TurnIds : WF_vars(PostStep(t) \/ StepToolStep(t))

\* POST turns whose generation calls the payroll tools, up to MaxStatusCalls times
StatusToolStep(t) ==
    \/ ToolBeginWith(t, StatusTools, MaxStatusCalls)
    \/ ToolPayrollLookup(t)
    \/ ToolCreate(t)
    \/ ToolUpdate(t)
    \/ ToolAudit(t)
    \/ ToolResult(t)

NextStatus == \E t \in TurnIds : PostStep(t) \/ StatusToolStep(t)

SpecStatus == Init /\ [][NextStatus]_vars

\* POST turns under varying stored roles, with role changes by the administrator
InitRoles ==
    /\ query = IdleQuery
    /\ fin = IdleFin
    /\ pay = IdlePay
    /\ users \in StoredRoles
    /\ currentContext = NullContext
    /\ calls = [t \in TurnIds |-> IdleCall]
    /\ db = InitialDb
    /\ auditLog = InitialAuditLog
    /\ chats = InitialChats
    /\ nextUuid = 0
    /\ turns \in [TurnIds -> UNION {RoleTurnRequests(t) : t \in TurnIds}]
    /\ \A t \in TurnIds : turns[t] \in RoleTurnRequests(t)

RoleToolStep(t) ==
    \/ ToolBeginWith(t, RoleTools, MaxRoleCalls)
    \/ ToolUpdate(t)
    \/ ToolAudit(t)
    \/ ToolResult(t)

\* the administrator A1 changes the role of E1
PatchStep == AdminUsersPatch("A1", "E1")

NextRoles == PatchStep \/ \E t \in TurnIds : PostStep(t) \/ RoleToolStep(t)

SpecRoles == InitRoles /\ [][NextRoles]_vars

\* create-admin requests on a store without users
InitAdmin ==
    /\ query = IdleQuery
    /\ fin = IdleFin
    /\ pay = IdlePay
    /\ users = NoUsers
    /\ currentContext = NullContext
    /\ calls = [t \in TurnIds |-> IdleCall]
    /\ db = InitialDb
    /\ auditLog = InitialAuditLog
    /\ chats = InitialChats
    /\ nextUuid = 0
    /\ turns \in [TurnIds -> UNION {CreateAdminRequests(t) : t \in TurnIds}]
    /\ \A t \in TurnIds : turns[t] \in CreateAdminRequests(t)

CreateAdminStep(t) ==
    \/ CreateAdminStart(t)
    \/ CreateAdminCount(t)
    \/ CreateAdminFindUnique(t)
    \/ CreateAdminHash(t)
    \/ CreateAdminCreate(t)

NextAdmin == \E t \in TurnIds : CreateAdminStep(t)

SpecAdmin == InitAdmin /\ [][NextAdmin]_vars

\* a POST turn and a resumption client, over callers with different credentials
InitAccess ==
    /\ InitStores
    /\ turns \in [TurnIds -> UNION {AccessRequests(t) : t \in TurnIds}]
    /\ \A t \in TurnIds : turns[t] \in AccessRequests(t)

SpecAccess == InitAccess /\ [][NextResume]_vars

InitPayroll == query = IdleQuery /\ fin = IdleFin /\ InitPay /\ QuietTurns

SpecPayroll == InitPayroll /\ [][NextPayroll]_vars

SpecPolicy == InitPolicy /\ [][NextPolicy]_vars

SpecDedup == InitDedup /\ [][NextDedup]_vars

----------------------------------------------------------------------------
(* Claims *)

\* the (actor id, role) of the authenticated caller of turn t
OwnContext(t) == [userId |-> turns[t].user.id, role |-> turns[t].user.role]

\* the tool invocations that read or update one record named by its id
RecordSpecific(call) ==
    \/ call.tool \in {"updateEmployee", "archiveEmployee", "reactivateEmployee",
                      "updateContract", "terminateContract", "updateAttendance",
                      "updateBenefit"}
    \/ call.tool = "getEmployee" /\ call.input.employeeId # NoId
    \/ call.tool \in {"getContract", "getPayroll"} /\ call.input.recordId # NoId

\* the invocation in turn t is one the turn's own caller is denied: the role lacks
\* the tool's action, or the ownership check the tool makes fails for the caller
DeniedForCaller(t) ==
    \/ ~permitted(calls[t].tool, OwnContext(t))
    \/ /\ calls[t].tool \in {"updateEmployee", "getEmployee"}
       /\ calls[t].input.employeeId # NoId
       /\ ~canAccessEmployee(turns[t].user.role, calls[t].input.employeeId,
                             turns[t].user.id)

\* C1: every tool execution of a turn authorizes against the (actor id, role) of
\* that turn's own caller, whatever the interleaving with other turns
C1_ToolUsesOwnTurnContext ==
    \A t \in TurnIds : calls[t].pc # "idle" => calls[t].ctx = OwnContext(t)

\* C2: an invocation its caller is denied ends in an authorization error and
\* changes no record and no audit entry
C2_DenialLeavesStoreAndAudit ==
    \A t \in TurnIds :
        calls[t].pc # "idle" /\ DeniedForCaller(t) =>
            /\ ~calls[t].wrote
            /\ ~calls[t].audited
            /\ calls[t].pc \in {"db", "done"}
            /\ calls[t].pc = "done" => calls[t].result = "Unauthorized"

\* C3: under the Employee role a tool that reads or updates one record by id
\* succeeds only on a record the caller owns, and ends in an authorization error
\* on a record owned by someone else
C3_EmployeeReachesOnlyOwnRecords ==
    \A t \in TurnIds :
        /\ calls[t].pc = "done"
        /\ calls[t].ctx = OwnContext(t)
        /\ turns[t].user.role = "Employee"
        /\ RecordSpecific(calls[t])
        /\ TargetId(calls[t].tool, calls[t].input) \in DOMAIN db
        /\ db[TargetId(calls[t].tool, calls[t].input)].employeeId # turns[t].user.id
        => calls[t].result = "Unauthorized"

\* C4: no tool execution has touched the store before its permission check and,
\* for a read or update of one record, its ownership check have passed
C4_AuthorizedBeforeStoreAccess ==
    \A t \in TurnIds :
        calls[t].touched =>
            /\ permitted(calls[t].tool, calls[t].ctx)
            /\ RecordSpecific(calls[t]) => calls[t].ownChecked

C6_CanAccessEmployee ==
    query.fn = "canAccessEmployee" =>
        /\ query.role \in {"HR_Admin", "HR_Manager", "Finance"} => query.result = TRUE
        /\ query.role = "Employee" =>
              query.result = (query.employeeId = query.requestingUserId)
        /\ query.role = "Employee" /\ query.requestingUserId = NoUserId =>
              query.result = FALSE
        /\ query.role \notin UserRole => query.result = FALSE

C6_Witness ==
    /\ query.fn = "canAccessEmployee"
    /\ query.role = "Employee"
    /\ query.employeeId = "E2"
    /\ query.requestingUserId = "E1"
    /\ query.result = FALSE

\* the ids of a message sequence
IdsOf(s) == {s[i].id : i \in 1..Len(s)}

\* the positions of s that hold the last occurrence of their id
LastOccurrences(s) == {i \in 1..Len(s) : \A k \in (i + 1)..Len(s) : s[k].id # s[i].id}

\* the subsequence of s at the positions in P
RECURSIVE PickPositions(_, _, _)
PickPositions(s, P, i) ==
    IF i > Len(s) THEN <<>>
    ELSE (IF i \in P THEN <<s[i]>> ELSE <<>>) \o PickPositions(s, P, i + 1)

\* C7: in the reconciled sequence every id of the input occurs exactly once, the
\* surviving message of an id is its last occurrence, no id is lost and no
\* message from outside the input appears
C7_DedupKeepsLastOfEachId ==
    fin.runs > 0 =>
        /\ IdsOf(fin.deduped) = IdsOf(fin.normalized)
        /\ \A i, j \in 1..Len(fin.deduped) :
              i # j => fin.deduped[i].id # fin.deduped[j].id
        /\ \A i \in 1..Len(fin.deduped) :
              \E j \in LastOccurrences(fin.normalized) : fin.normalized[j] = fin.deduped[i]
        /\ Len(fin.normalized) = Len(fin.input)
        /\ \A i \in 1..Len(fin.input) :
              /\ fin.normalized[i].text = fin.input[i].text
              /\ fin.input[i].id # 0 => fin.normalized[i].id = fin.input[i].id

C7_Witness ==
    /\ fin.runs > 0
    /\ fin.input = <<[id |-> 1, text |-> "a"], [id |-> 2, text |-> "a"],
                     [id |-> 1, text |-> "b"]>>
    /\ fin.deduped = <<[id |-> 2, text |-> "a"], [id |-> 1, text |-> "b"]>>

AllCarryIds(s) == \A i \in 1..Len(s) : s[i].id # 0

\* C8: for a sequence whose messages all carry ids, finalizing it followed by
\* itself, or finalizing it a second time, stores the same sequence (length and
\* content) as finalizing it once
C8_FinalizeIdempotent ==
    AllCarryIds(fin.input) =>
        /\ fin.runs = 2 => fin.stored = fin.first /\ Len(fin.stored) = Len(fin.first)
        /\ fin.runs > 0 /\ fin.doubledRun =>
              fin.doubled = fin.first /\ Len(fin.doubled) = Len(fin.first)

C8_Witness ==
    /\ fin.runs = 2
    /\ fin.doubledRun
    /\ fin.input = <<[id |-> 1, text |-> "a"], [id |-> 2, text |-> "b"],
                     [id |-> 1, text |-> "b"]>>
    /\ fin.stored = <<[id |-> 2, text |-> "b"], [id |-> 1, text |-> "b"]>>
    /\ fin.doubled = fin.stored

\* C9: the reconciled sequence is the subsequence of the input formed by the last
\* occurrence of each id, so messages whose ids occur once keep their relative order
C9_DedupPreservesOrder ==
    fin.runs > 0 =>
        /\ fin.deduped = PickPositions(fin.normalized, LastOccurrences(fin.normalized), 1)
        /\ \A i, j \in 1..Len(fin.normalized) :
              /\ i < j
              /\ \A k \in 1..Len(fin.normalized) :
                    k \notin {i, j} => fin.normalized[k].id \notin {fin.normalized[i].id,
                                                                    fin.normalized[j].id}
              /\ fin.normalized[i].id # fin.normalized[j].id
              => \E a, b \in 1..Len(fin.deduped) :
                    /\ a < b
                    /\ fin.deduped[a] = fin.normalized[i]
                    /\ fin.deduped[b] = fin.normalized[j]

C9_Witness ==
    /\ fin.runs > 0
    /\ fin.input = <<[id |-> 2, text |-> "a"], [id |-> 1, text |-> "a"],
                     [id |-> 2, text |-> "b"], [id |-> 0, text |-> "a"]>>
    /\ Len(fin.deduped) = 3
    /\ fin.deduped[1] = [id |-> 1, text |-> "a"]
    /\ fin.deduped[2] = [id |-> 2, text |-> "b"]

\* C10: every stored message of every conversation has a non-empty id and no two
\* stored messages of one conversation share an id
C10_StoredIdsUniqueNonEmpty ==
    \A c \in DOMAIN chats :
        \A i \in 1..Len(chats[c]) :
            /\ chats[c][i].id # 0
            /\ \A j \in 1..Len(chats[c]) : i # j => chats[c][i].id # chats[c][j].id

\* two overlapping turns on the stored conversation, one re-sending id 1 with a
\* message without id, the other sending id 2 twice, have both been saved
C10_Witness ==
    /\ \A t \in TurnIds : turns[t].pc = "done" /\ turns[t].currentChatId = "c1"
    /\ turns["t1"].messages = <<[id |-> 1, text |-> "a"], [id |-> 0, text |-> "b"]>>
    /\ turns["t2"].messages = <<[id |-> 2, text |-> "a"], [id |-> 2, text |-> "b"]>>
    /\ \E i \in 1..Len(chats["c1"]) : chats["c1"][i] = [id |-> 2, text |-> "b"]
    /\ \E i \in 1..Len(chats["c1"]) : chats["c1"][i].id >= randomUUID(0)
                                       /\ chats["c1"][i].text = "b"
    /\ Len(chats["c1"]) >= 5

\* the turn has resolved its conversation
Resolved(t) ==
    turns[t].pc \in {"loadHistory", "validate", "config", "generating", "saving", "done"}

\* C11: a turn is never failed because of the supplied conversation id: without an
\* id, or with an id that is not stored, a conversation is created and used, its id
\* differs from the supplied one and the response carries X-Chat-Id; with a stored
\* id that conversation is used, none is created and the header is absent
C11_ResolutionNeverFailsOnId ==
    /\ \A t \in TurnIds :
          /\ turns[t].status \in {0, 200, 401, 500}
          /\ turns[t].pc = "failed" => turns[t].status = 500
          /\ turns[t].status = 500 =>
                turns[t].currentChatId = NoId \/ turns[t].currentChatId \in DOMAIN chats
          /\ Resolved(t) =>
                /\ turns[t].currentChatId \in DOMAIN chats
                /\ IF turns[t].chatId = NoId \/ turns[t].chatId \notin DOMAIN chats
                   THEN /\ turns[t].isNewChat
                        /\ turns[t].currentChatId # turns[t].chatId
                        /\ turns[t].currentChatId \notin DOMAIN InitialChats
                        /\ turns[t].status = 200 => turns[t].header = turns[t].currentChatId
                   ELSE /\ ~turns[t].isNewChat
                        /\ turns[t].currentChatId = turns[t].chatId
                        /\ turns[t].header = NoId
    /\ Cardinality(DOMAIN chats) =
          Cardinality(DOMAIN InitialChats)
             + Cardinality({t \in TurnIds : turns[t].isNewChat})

\* one turn supplied an id that is not stored and was answered on a created
\* conversation, the other supplied the stored id and was answered on it
C11_Witness ==
    /\ turns["t1"].chatId = "c9"
    /\ turns["t1"].status = 200
    /\ turns["t1"].header = turns["t1"].currentChatId
    /\ turns["t1"].header \notin {NoId, "c9"}
    /\ turns["t2"].chatId = "c1"
    /\ turns["t2"].status = 200
    /\ turns["t2"].currentChatId = "c1"
    /\ turns["t2"].header = NoId

\* stored sequence s holds submitted message m: same content, the same id when m
\* carries one and a generated id when it does not
Holds(s, m) ==
    \E i \in 1..Len(s) :
        /\ s[i].text = m.text
        /\ IF m.id # 0 THEN s[i].id = m.id ELSE s[i].id >= randomUUID(0)

\* no id occurs twice in s; missing ids count as distinct
DistinctIds(s) == \A i, j \in 1..Len(s) : i # j /\ s[i].id # 0 => s[i].id # s[j].id

\* GET g was answered from the conversation that POST turn p, sent without an id,
\* created and has saved, with the id p's response header carried
ResumedAfter(p, g) ==
    /\ turns[p].method = "POST"
    /\ turns[p].chatId = NoId
    /\ turns[p].saved
    /\ turns[g].method = "GET"
    /\ turns[g].pc = "responded"
    /\ turns[g].chatId = turns[p].header
    /\ p \in turns[g].epoch

\* C12 as stated: after a POST without conversation id carrying n new messages has
\* finalized successfully, a GET with the header's id returns at least n messages
\* and they contain the n submitted ones
C12_ResumeReturnsSubmitted ==
    \A p, g \in TurnIds :
        ResumedAfter(p, g) =>
            /\ turns[g].status = 200
            /\ Len(turns[g].body) >= Len(turns[p].messages)
            /\ \A i \in 1..Len(turns[p].messages) : Holds(turns[g].body, turns[p].messages[i])

\* C12 amended: the same, for submitted messages whose ids are pairwise distinct
C12_ResumeReturnsDistinctSubmitted ==
    \A p, g \in TurnIds :
        ResumedAfter(p, g) /\ DistinctIds(turns[p].messages) =>
            /\ turns[g].status = 200
            /\ Len(turns[g].body) >= Len(turns[p].messages)
            /\ \A i \in 1..Len(turns[p].messages) : Holds(turns[g].body, turns[p].messages[i])

\* two messages without ids were submitted without a conversation id and the GET
\* with the header's id returned them and the response, three messages
C12_Witness ==
    /\ ResumedAfter("t1", "t2")
    /\ turns["t1"].messages = <<[id |-> 0, text |-> "a"], [id |-> 0, text |-> "b"]>>
    /\ turns["t2"].status = 200
    /\ Len(turns["t2"].body) = 3

\* C13: a turn that has entered Generating runs to the end of its finalize step
\* (reconcile and saveChat on the turn's conversation), whether or not its client
\* has closed the connection
C13_DisconnectDoesNotCancel ==
    \A t \in TurnIds :
        (turns[t].pc = "generating") ~> (turns[t].pc = "done" /\ turns[t].deduped # <<>>)

\* a turn whose client disconnected while it was generating has saved its messages
C13_Witness ==
    \E t \in TurnIds :
        /\ ~turns[t].connected
        /\ turns[t].pc = "done"
        /\ turns[t].saved
        /\ turns[t].steps > 0
        /\ chats[turns[t].currentChatId] = turns[t].deduped

\* the POST request of turn t has no valid credential, or one naming no stored user
Unauthenticated(t) ==
    /\ turns[t].method = "POST"
    /\ turns[t].token = NoToken \/ turns[t].token \notin DOMAIN users

\* C14: a POST without a valid credential, or whose credential names no stored
\* user, is rejected with 401 before the context is bound, before a conversation
\* is created or loaded and before any tool runs; none of its steps changes the
\* conversations, the records, the audit log or the bound context
C14_RejectedBeforeBinding ==
    /\ [](\A t \in TurnIds :
            /\ Unauthenticated(t) =>
                  /\ turns[t].pc \in {"idle", "findUser", "rejected"}
                  /\ turns[t].pc = "rejected" <=> turns[t].status = 401
                  /\ turns[t].status \in {0, 401}
                  /\ turns[t].user = NoUser
                  /\ turns[t].currentChatId = NoId
                  /\ turns[t].steps = 0
                  /\ calls[t].pc = "idle"
                  /\ currentContext.userId # turns[t].token
            /\ turns[t].status = 401 => Unauthenticated(t))
    /\ [][\A t \in TurnIds :
            Unauthenticated(t) /\ turns'[t] # turns[t] =>
                UNCHANGED <<currentContext, chats, db, auditLog, calls>>]_vars

\* a request naming no stored user was rejected while the context bound by the
\* other turn, which is generating, stays bound
C14_Witness ==
    /\ turns["t2"].token = "X9"
    /\ turns["t2"].status = 401
    /\ turns["t1"].pc = "generating"
    /\ currentContext = [userId |-> "E1", role |-> "Employee"]
    /\ chats = [c \in DOMAIN InitialChats \cup {turns["t1"].currentChatId} |->
                   IF c \in DOMAIN InitialChats THEN InitialChats[c] ELSE <<>>]

\* turn t is a resumption GET that has been answered
Answered(t) == turns[t].method = "GET" /\ turns[t].pc = "responded"

\* C15: a GET without chatId is answered 400 without a load; a GET whose chatId is
\* not stored is answered 404; a GET whose chatId is stored is answered with all
\* stored messages of that conversation in stored order
C15_GetOutcomes ==
    /\ [](\A t \in TurnIds :
            Answered(t) =>
                /\ turns[t].status \in {200, 400, 404}
                /\ turns[t].chatId = NoId <=> turns[t].status = 400
                /\ turns[t].status = 400 => ~turns[t].loaded /\ turns[t].body = <<>>
                /\ turns[t].status = 404 <=>
                      turns[t].chatId # NoId /\ turns[t].chatId \notin DOMAIN chats
                /\ turns[t].status = 404 => turns[t].body = <<>>)
    /\ [][\A t \in TurnIds :
            turns[t].method = "GET" /\ ~Answered(t) /\ turns'[t].pc = "responded"
            /\ turns'[t].chatId \in DOMAIN chats =>
                /\ turns'[t].status = 200
                /\ turns'[t].body = chats[turns'[t].chatId]]_vars

\* the client was answered 404 for an unknown id and then 200 with the three
\* messages a finished turn has stored
C15_Witness ==
    /\ Answered("t2")
    /\ turns["t2"].prev.status = 404
    /\ turns["t2"].prev.chatId = "c9"
    /\ turns["t2"].status = 200
    /\ turns["t2"].body = chats[turns["t2"].chatId]
    /\ Len(turns["t2"].body) = 3

\* the messages of conversation c before any turn
InitialMessages(c) == IF c \in DOMAIN InitialChats THEN InitialChats[c] ELSE <<>>

\* C16: a GET never creates a conversation, never changes a stored message and
\* never rebinds the context; two GETs for one id with no finalize in between
\* return identical sequences, equal to what the last successful finalize of that
\* conversation wrote
C16_ResumptionIsPureRead ==
    /\ [][\A t \in TurnIds :
            turns[t].method = "GET" /\ turns'[t] # turns[t] =>
                UNCHANGED <<chats, currentContext, users, db, auditLog>>]_vars
    /\ [](\A t \in TurnIds :
            Answered(t) /\ turns[t].status = 200 =>
                /\ turns[t].prev.status = 200 /\ turns[t].prev.chatId = turns[t].chatId
                   /\ turns[t].prev.epoch = turns[t].epoch
                   => turns[t].body = turns[t].prev.body
                /\ LET writers == {p \in turns[t].epoch :
                                      turns[p].currentChatId = turns[t].chatId}
                   IN IF writers = {}
                      THEN turns[t].body = InitialMessages(turns[t].chatId)
                      ELSE \E p \in writers :
                              turns[t].body = saveChat(InitialMessages(turns[t].chatId),
                                                       turns[p].deduped))

\* two GETs for the stored conversation after a turn has finalized on it returned
\* the same sequence, the one that finalize wrote
C16_Witness ==
    /\ Answered("t2")
    /\ turns["t2"].chatId = "c1"
    /\ turns["t2"].prev.chatId = "c1"
    /\ turns["t2"].status = 200
    /\ turns["t2"].prev.status = 200
    /\ turns["t2"].epoch = {"t1"}
    /\ turns["t2"].prev.epoch = {"t1"}
    /\ turns["t1"].currentChatId = "c1"
    /\ turns["t2"].body = turns["t2"].prev.body
    /\ Len(turns["t2"].body) >= 3

\* C17: audit rows are returned only by getAuditLogs running under the bound role
\* HR_Admin; under any other bound role getAuditLogs ends in an authorization
\* error before the audit log is read; no other tool returns audit rows
C17_AuditLogsOnlyForAdmin ==
    \A t \in TurnIds :
        /\ calls[t].logs # <<>> =>
              calls[t].tool = "getAuditLogs" /\ calls[t].ctx.role = "HR_Admin"
        /\ calls[t].tool = "getAuditLogs" /\ calls[t].ctx.role # "HR_Admin" =>
              /\ calls[t].pc = "done"
              /\ calls[t].result = "Unauthorized"
              /\ ~calls[t].touched
              /\ calls[t].logs = <<>>
        /\ calls[t].tool # "getAuditLogs" =>
              /\ calls[t].logs = <<>>
              /\ calls[t].returned \subseteq DOMAIN db

\* getAuditLogs ran under the Employee role while the audit log holds a row, and
\* ended in an authorization error
C17_Witness ==
    \E t \in TurnIds :
        /\ calls[t].tool = "getAuditLogs"
        /\ calls[t].ctx = [userId |-> "E1", role |-> "Employee"]
        /\ calls[t].pc = "done"
        /\ calls[t].result = "Unauthorized"
        /\ auditLog # <<>>

\* the record a create or update tool leaves behind
Written(call, id) == id \in DOMAIN db /\ db[id].kind = ToolEntityType(call.tool)

\* C18: when the audit write fails after the primary write succeeded, the primary
\* write stays persisted and the tool returns the successful result it returns when
\* the audit write succeeds; the audit step itself changes no record
C18_AuditFailureDoesNotAbort ==
    /\ [](\A t \in TurnIds :
            calls[t].wrote /\ calls[t].pc = "done" =>
                /\ calls[t].result = "ok"
                /\ calls[t].returned # {}
                /\ \A id \in calls[t].returned : Written(calls[t], id))
    /\ [][\A t \in TurnIds :
            calls[t].pc = "audit" /\ calls'[t].pc # "audit" =>
                /\ calls'[t].pc = "done"
                /\ calls'[t].result = "ok"
                /\ calls'[t].returned = calls[t].returned
                /\ calls'[t].wrote = calls[t].wrote
                /\ UNCHANGED db]_vars

\* a create tool whose audit write failed has returned its record, which is stored
C18_Witness ==
    \E t \in TurnIds :
        /\ calls[t].tool = "createContract"
        /\ calls[t].wrote
        /\ ~calls[t].audited
        /\ calls[t].pc = "done"
        /\ calls[t].result = "ok"
        /\ \A id \in calls[t].returned : db[id].kind = "Contract"
        /\ auditLog = InitialAuditLog

\* C19: every tool invocation that completes successfully and reads or changes a
\* record has passed its audit entry (entity kind, record id, action, actor id) to
\* the recorder, and the entry is in the audit log unless that write failed; this
\* holds for the read tools as for the create and update tools
C19_EveryAccessIsAudited ==
    \A t \in TurnIds :
        /\ calls[t].pc = "done"
        /\ calls[t].result = "ok"
        /\ calls[t].returned # {}
        =>
        /\ calls[t].entry # NoEntry
        /\ calls[t].entry.entityType = ToolEntityType(calls[t].tool)
        /\ calls[t].entry.entityId \in calls[t].returned
        /\ calls[t].entry.action \in {"Create", "Update", "Read"}
        /\ calls[t].entry.performedBy = calls[t].ctx.userId
        /\ calls[t].audited => \E i \in 1..Len(auditLog) : auditLog[i] = calls[t].entry

\* ---- calculatePayroll amounts ----

\* hours * (number of rows carrying that many hours), summed over the hours up to h
RECURSIVE HoursUpTo(_, _)
HoursUpTo(rows, h) ==
    IF h = 0 THEN 0
    ELSE h * Cardinality({r \in rows : r.overtimeHours = h}) + HoursUpTo(rows, h - 1)

\* the rows of the payroll's employee dated within the period, both ends included
InPeriod(p) ==
    {r \in p.rows : /\ r.employeeId = p.input.employeeId
                    /\ r.date \in p.input.periodStart .. p.input.periodEnd}

PeriodHours(p) ==
    HoursUpTo(InPeriod(p), CHOOSE h \in OvertimeHours : \A g \in OvertimeHours : g <= h)

\* the numeric values of a deductions payload, summed from the last value back
RECURSIVE DeductedSum(_)
DeductedSum(values) ==
    IF values = <<>> THEN 0
    ELSE DeductedSum(SubSeq(values, 1, Len(values) - 1))
           + (IF values[Len(values)].numeric THEN values[Len(values)].value ELSE 0)

\* C20: a stored payroll has overtimePay = (overtime hours of the employee's rows dated
\* within the period) x (salary / 160) x 1.5, netSalary = salary + overtimePay - the sum
\* of the deduction values, baseSalary = salary and status Calculated; rows of other
\* employees or outside the period change nothing; 10 hours at salary 1600 give 150
C20_PayrollAmounts ==
    pay.result = "ok" =>
        /\ 320 * pay.payroll.overtimePay = 3 * PeriodHours(pay) * pay.salary
        /\ pay.payroll.netSalary
             = pay.salary + pay.payroll.overtimePay
                 - (IF pay.input.deductions.kind = "object"
                    THEN DeductedSum(pay.input.deductions.values) ELSE 0)
        /\ pay.payroll.baseSalary = pay.salary
        /\ pay.payroll.status = "Calculated"
        /\ (PeriodHours(pay) = 10 /\ pay.salary = 1600 => pay.payroll.overtimePay = 150)

C20_Witness ==
    /\ pay.result = "ok"
    /\ pay.salary = 1600
    /\ PeriodHours(pay) = 10
    /\ pay.payroll.overtimePay = 150
    /\ pay.payroll.netSalary = 1650
    /\ \E r \in pay.rows : r \notin InPeriod(pay) /\ r.overtimeHours > 0

\* ---- concurrent finalizes ----

\* message m is at some position of sequence s
Contains(s, m) == \E i \in 1..Len(s) : s[i] = m

\* both turns have finalized successfully on conversation c
BothFinalizedOn(c) == \A t \in TurnIds : turns[t].saved /\ turns[t].currentChatId = c

\* the stored sequence of c is what the finalize of a followed by the finalize of b gives
SerialOrder(c, a, b) ==
    chats[c] = saveChat(saveChat(InitialChats[c], turns[a].deduped), turns[b].deduped)

\* the i-th message turn t finalized is one of its own: a newly supplied message or
\* its response, not a message of the history it loaded
OwnMessage(t, i) == ~Contains(turns[t].previousMessages, turns[t].deduped[i])

\* C21 as stated: after two turns in flight on one conversation have both finalized,
\* the stored sequence is the result of the two finalizes run one after the other and
\* contains every message of both turns; a finalize changes its own conversation only
C21_FinalizesSerialized ==
    /\ [](\A c \in DOMAIN InitialChats :
             BothFinalizedOn(c) =>
                /\ SerialOrder(c, "t1", "t2") \/ SerialOrder(c, "t2", "t1")
                /\ \A t \in TurnIds : \A i \in 1..Len(turns[t].deduped) :
                       OwnMessage(t, i) => Contains(chats[c], turns[t].deduped[i]))
    /\ [][\A c \in DOMAIN chats :
             chats'[c] # chats[c] =>
                \E t \in TurnIds : turns[t].pc = "saving" /\ turns'[t].pc = "done"
                                   /\ turns[t].currentChatId = c]_vars

\* ---- step cap and termination ----

\* C22: a turn's generation starts at most 5 tool-invocation steps, and every turn
\* that has passed authentication reaches Done or Failed
C22_StepCapAndTermination ==
    /\ [](\A t \in TurnIds : turns[t].steps <= 5)
    /\ \A t \in TurnIds :
          (turns[t].pc = "readBody") ~> (turns[t].pc \in {"done", "failed"})

\* a turn whose generation requested a tool at every step has finished after 5 of
\* them although more tool executions were available
C22_Witness ==
    \E t \in TurnIds :
        /\ turns[t].pc = "done"
        /\ turns[t].steps = 5
        /\ ToolCallsMade < MaxStepCalls

\* ---- getEmployee by id on another employee's record ----

\* turn t runs getEmployee by id for an Employee-role caller on an id not its own
OtherEmployeeRequested(t) ==
    /\ calls[t].pc # "idle"
    /\ calls[t].tool = "getEmployee"
    /\ turns[t].user.role = "Employee"
    /\ calls[t].input.employeeId \notin {NoId, turns[t].user.id}

\* C23: getEmployee by id, invoked for an Employee-role caller with an employeeId
\* other than the caller's id, ends in an authorization error, returns no employee
\* data, writes no audit entry and changes no record
C23_EmployeeDeniedOtherEmployee ==
    \A t \in TurnIds :
        OtherEmployeeRequested(t) =>
            /\ calls[t].returned = {}
            /\ calls[t].pc \in {"db", "done"}
            /\ calls[t].pc = "done" => calls[t].result = "Unauthorized"
            /\ ~calls[t].audited
            /\ ~calls[t].wrote

\* ---- persisted messages ----

\* the ids emitted in this step by the turns finalizing on conversation c
EmittedOn(c) ==
    UNION {IdsOf(turns[t].deduped) :
              t \in {u \in TurnIds : /\ turns[u].pc = "saving"
                                     /\ turns'[u].pc = "done"
                                     /\ turns[u].currentChatId = c}}

\* every id of `before` is still in `after`, and the messages of `before` whose ids
\* are not in `emitted` are in `after` unchanged and in the same relative order
Preserved(before, after, emitted) ==
    /\ \A i \in 1..Len(before) : \E k \in 1..Len(after) : after[k].id = before[i].id
    /\ \A i \in 1..Len(before) :
          before[i].id \notin emitted => \E k \in 1..Len(after) : after[k] = before[i]
    /\ \A i, j \in 1..Len(before) :
          i < j /\ before[i].id \notin emitted /\ before[j].id \notin emitted =>
             \E k, l \in 1..Len(after) : k < l /\ after[k] = before[i] /\ after[l] = before[j]

ValidationFailed(t) == turns[t].validation = "TypeValidationError"

\* C25: a turn whose validation of prior + new messages failed is not failed: it goes
\* on to Generating with exactly the newly supplied messages as its history, none of
\* the prior ones, and reaches its finalize
C25_ValidationFailureNotFatal ==
    /\ [](\A t \in TurnIds :
             ValidationFailed(t) =>
                /\ turns[t].pc = "config"
                /\ turns[t].status # 500
                /\ turns[t].validatedMessages = turns[t].messages)
    /\ [][\A t \in TurnIds :
             ValidationFailed(t) /\ turns'[t] # turns[t] =>
                /\ turns'[t].pc = "generating"
                /\ turns'[t].validatedMessages = turns[t].messages]_vars
    /\ \A t \in TurnIds :
          ValidationFailed(t) ~> (turns[t].pc = "done" /\ turns[t].deduped # <<>>)

\* validation failed in a turn that had loaded a stored message; the turn has
\* finalized its new message and its response, without the loaded one
C25_Witness ==
    \E t \in TurnIds :
        /\ turns[t].pc = "done"
        /\ turns[t].previousMessages = InitialChats["c1"]
        /\ turns[t].validatedMessages = turns[t].messages
        /\ Len(turns[t].deduped) = Len(turns[t].messages) + 1
        /\ ~Contains(turns[t].deduped, InitialChats["c1"][1])

\* C26: a turn on a conversation flagged new never awaits the history load and has
\* an empty prior history; a turn whose history load failed is not failed by it and
\* continues with an empty prior history followed by its new messages
C26_HistoryLoadSkippedOrNonFatal ==
    /\ [](\A t \in TurnIds :
             /\ turns[t].isNewChat =>
                   /\ turns[t].pc # "loadHistory"
                   /\ ~turns[t].loadFailed
                   /\ turns[t].previousMessages = <<>>
             /\ turns[t].loadFailed =>
                   /\ turns[t].pc # "loadHistory"
                   /\ turns[t].previousMessages = <<>>
                   /\ turns[t].pc = "failed" => turns[t].validation = "error"
                   /\ turns[t].pc \in {"config", "generating", "saving", "done"} =>
                         turns[t].validatedMessages = turns[t].messages)
    /\ [][\A t \in TurnIds :
             /\ turns[t].pc = "loadHistory" /\ turns'[t] # turns[t] =>
                   turns'[t].pc = "validate"
             /\ turns[t].pc = "createChat" /\ turns'[t].isNewChat =>
                   turns'[t].pc = "validate"]_vars

\* one turn's history load failed on the stored conversation and it has been saved
\* with its new messages and response only; the other ran on a created conversation
C26_Witness ==
    \E t, u \in TurnIds :
        /\ turns[t].loadFailed
        /\ turns[t].currentChatId = "c1"
        /\ turns[t].saved
        /\ Len(turns[t].deduped) = Len(turns[t].messages) + 1
        /\ turns[u].isNewChat
        /\ turns[u].saved

\* ---- persistence failure in finalize ----

\* turn t's saveChat settles in this step
SaveSettles(t) == turns[t].pc = "saving" /\ turns'[t].pc # "saving"

\* C27: when saveChat fails in a turn's finalize, the response already returned
\* (status 200, X-Chat-Id) stays as it is, the turn ends as done and not as failed,
\* and every stored conversation is as it was before the write
C27_SaveFailureCaught ==
    /\ [](\A t \in TurnIds :
             /\ turns[t].pc \in {"saving", "done"} => turns[t].status = 200
             /\ turns[t].deduped # <<>> => turns[t].pc \in {"saving", "done"})
    /\ [][\A t \in TurnIds :
             SaveSettles(t) =>
                /\ turns'[t].pc = "done"
                /\ turns'[t].status = turns[t].status
                /\ turns'[t].header = turns[t].header
                /\ ~turns'[t].saved => chats' = chats]_vars

\* a turn on the stored conversation ended with a failed save: answered with 200,
\* messages reconciled, and the conversation still holds what it held at the start
C27_Witness ==
    \E t \in TurnIds :
        /\ turns[t].pc = "done"
        /\ ~turns[t].saved
        /\ turns[t].status = 200
        /\ turns[t].deduped # <<>>
        /\ turns[t].currentChatId = "c1"
        /\ chats["c1"] = InitialChats["c1"]

\* ---- read tools that return several records ----

\* the invocation is a read that returns a list: getEmployee in search mode, the
\* reads by employeeId of contracts and payrolls, letters, attendance, benefits
ListRead(call) ==
    \/ call.tool = "getEmployee" /\ call.input.employeeId = NoId
    \/ call.tool \in {"getContract", "getPayroll"}
         /\ call.input.recordId = NoId /\ call.input.employeeId # NoId
    \/ call.tool \in {"getLetters", "getAttendance", "getBenefits"}

\* C28: a list read executed for an Employee-role context returns only records owned
\* by that context's user, whatever employeeId filter was supplied
C28_ListReadsFilteredByOwner ==
    \A t \in TurnIds :
        calls[t].pc # "idle" /\ ListRead(calls[t]) /\ calls[t].ctx.role = "Employee" =>
            \A id \in calls[t].returned : db[id].employeeId = calls[t].ctx.userId

\* ---- payroll status ----

\* the position of a status in Pending, Calculated, Verified, Approved, Paid
StatusRank(status) ==
    CASE status = "Pending" -> 1
      [] status = "Calculated" -> 2
      [] status = "Verified" -> 3
      [] status = "Approved" -> 4
      [] status = "Paid" -> 5
      [] OTHER -> 0

\* C29: no step moves a payroll record to an earlier status, and a record becomes
\* Paid only from Approved
C29_PayrollStatusForwardOnly ==
    [][\A id \in DOMAIN db :
          db[id].kind = "Payroll" /\ db'[id].status # db[id].status =>
             /\ StatusRank(db'[id].status) > StatusRank(db[id].status)
             /\ db'[id].status = "Paid" => db[id].status = "Approved"]_vars

\* ---- order of the steps of a create or update tool ----

\* the tools that make a primary write
WriteTools == CreateTools \cup UpdateTools \cup {"calculatePayroll"}

\* C30: in a create or update tool the write follows the permission check, the audit
\* entry follows the successful write and carries the written record's id and the
\* bound caller id, the return follows the audit write; when the write fails the
\* tool fails and no audit entry is written
C30_WriteThenAuditThenReturn ==
    /\ [](\A t \in TurnIds :
             calls[t].tool \in WriteTools =>
                /\ calls[t].wrote => permitted(calls[t].tool, calls[t].ctx)
                /\ calls[t].pc = "audit" \/ calls[t].audited =>
                      /\ calls[t].wrote
                      /\ calls[t].returned = {calls[t].entry.entityId}
                      /\ Written(calls[t], calls[t].entry.entityId)
                      /\ calls[t].entry.performedBy = calls[t].ctx.userId
                      /\ calls[t].entry.entityType = ToolEntityType(calls[t].tool)
                /\ calls[t].pc = "done" /\ calls[t].result = "ok" => calls[t].wrote
                /\ calls[t].pc = "done" /\ calls[t].result # "ok" =>
                      ~calls[t].wrote /\ ~calls[t].audited /\ calls[t].entry = NoEntry)
    /\ [][\A t \in TurnIds :
             calls[t].tool \in WriteTools /\ calls'[t] # calls[t] =>
                /\ db' # db => calls[t].pc \in {"db", "db3"} /\ calls'[t].pc = "audit"
                /\ calls[t].pc = "audit" =>
                      /\ calls'[t].pc = "done"
                      /\ auditLog' \in {auditLog, Append(auditLog, calls[t].entry)}
                /\ calls[t].pc # "audit" => auditLog' = auditLog]_vars

\* an update tool has returned after its audit entry was appended: the entry names
\* the updated record and the bound caller
C30_Witness ==
    \E t \in TurnIds :
        /\ calls[t].tool \in UpdateTools
        /\ calls[t].pc = "done"
        /\ calls[t].result = "ok"
        /\ calls[t].audited
        /\ auditLog[Len(auditLog)].entityId = TargetId(calls[t].tool, calls[t].input)
        /\ auditLog[Len(auditLog)].performedBy = calls[t].ctx.userId
        /\ db[TargetId(calls[t].tool, calls[t].input)].kind = ToolEntityType(calls[t].tool)

\* ---- audit log ----

\* C31: the audit log is append-only: a step leaves it as it is or adds one entry
\* at its end, so every entry stays at its position with its content
C31_AuditLogAppendOnly ==
    [][\/ auditLog' = auditLog
       \/ /\ Len(auditLog') = Len(auditLog) + 1
          /\ SubSeq(auditLog', 1, Len(auditLog)) = auditLog]_vars

\* a tool has added an entry after the one stored at the start, which is unchanged
C31_Witness ==
    /\ Len(auditLog) = Len(InitialAuditLog) + 1
    /\ auditLog[1] = InitialAuditLog[1]
    /\ \E t \in TurnIds : calls[t].audited /\ auditLog[Len(auditLog)] = calls[t].entry

\* ---- deductions payload ----

\* the employee of the calculatePayroll input is stored
PayrollEmployeeFound == pay.input.employeeId \in {"E1", "E2"}

\* C32: whatever the deductions payload, calculatePayroll for a stored employee does
\* not fail: a payload that is not a mapping counts as empty, a value that is not
\* numeric counts as 0, and netSalary is salary + overtimePay - the numeric values
C32_DeductionsPayloadNeverFails ==
    pay.pc = "done" /\ PayrollEmployeeFound =>
        /\ pay.result = "ok"
        /\ pay.payroll.netSalary
             = pay.salary + pay.payroll.overtimePay
                 - DeductedSum(IF pay.input.deductions.kind = "object"
                               THEN pay.input.deductions.values ELSE <<>>)

\* ---- payroll approval ----

\* under a role outside `roles` approvePayroll has thrown Unauthorized before any
\* prisma call
ApprovalRefused(roles) ==
    \A t \in TurnIds :
        calls[t].tool = "approvePayroll" /\ calls[t].ctx.role \notin roles =>
            /\ calls[t].pc = "done"
            /\ calls[t].result = "Unauthorized"
            /\ ~calls[t].touched
            /\ ~calls[t].wrote

\* a step changes a record only when the approval that writes runs under one of `roles`
ApprovalWrites(roles) ==
    db' # db =>
        \E t \in TurnIds : /\ calls[t].tool = "approvePayroll"
                           /\ calls'[t].wrote
                           /\ calls[t].ctx.role \in roles

AttendanceForOther(call) ==
    /\ call.tool \in {"recordAttendance", "requestLeave"}
    /\ call.ctx.role = "Employee"
    /\ call.input.employeeId # call.ctx.userId

\* C34: under an Employee-role context recordAttendance and requestLeave create a
\* record only for the caller: a call naming another employeeId reaches no prisma
\* call and no attendance record of that employee is created
C34_EmployeeAttendanceOnlyOwn ==
    \A t \in TurnIds :
        AttendanceForOther(calls[t]) =>
            /\ ~calls[t].touched
            /\ ~calls[t].wrote
            /\ \A id \in DOMAIN db \ DOMAIN InitialDb :
                  ~(db[id].kind = "AttendanceRecord"
                    /\ db[id].employeeId = calls[t].input.employeeId)

\* ---- initial administrator ----

\* a create-admin request whose count arrives while a user exists is answered 403 and
\* stores nothing
RefusedOnceUserExists(t) ==
    /\ turns[t].method = "create-admin"
    /\ turns[t].pc = "count"
    /\ turns'[t].pc # "count"
    /\ Cardinality(DOMAIN users) > 0
    => /\ turns'[t].pc = "responded"
       /\ turns'[t].status = 403
       /\ users' = users

\* C35: create-admin requests create at most one user over any interleaving, and a
\* request that finds a user present is answered 403 and creates nothing
C35_AtMostOneInitialAdmin ==
    /\ [](Cardinality(DOMAIN users) <= 1)
    /\ [][\A t \in TurnIds : RefusedOnceUserExists(t)]_vars

\* ---- identifier assignment ----

\* C36: finalizing the same turn output twice assigns the same identifiers to the
\* messages without one, so the sequence the second finalize stores equals the one
\* the first stored, message for message
C36_IdentifiersAssignedDeterministically ==
    fin.runs = 2 => fin.deduped = fin.first

\* ---- records a role can change ----

\* the tools whose write the claim allows to a turn of `role`
MayChange(role, tool) ==
    CASE role = "Employee" -> ToolEntityType(tool) = "AttendanceRecord"
      [] role = "Finance" -> ToolEntityType(tool) = "Payroll"
      [] role = "HR_Manager" -> tool \notin CreateTools \cup {"calculatePayroll"}
      [] OTHER -> TRUE

\* C37: the records a turn changes are bounded by the role of its caller: an Employee's
\* turn writes attendance records only, a Finance turn Payroll records only, and an
\* HR_Manager's turn creates no record
C37_WritesBoundedByCallerRole ==
    \A t \in TurnIds :
        calls[t].wrote => MayChange(turns[t].user.role, calls[t].tool)

\* ---- role changes ----

\* the user row arrives for turn t and the turn binds its context
Binds(t) == turns[t].pc = "findUser" /\ turns'[t].pc = "readBody"

\* C38: a turn binds the role stored for its user at the moment it starts, so a turn
\* started after a role change binds the new role; and every tool call of a turn,
\* also of one that was in flight during the change, authorizes with the role the
\* turn bound
C38_TurnKeepsRoleBoundAtStart ==
    /\ [][\A t \in TurnIds : Binds(t) =>
             /\ turns'[t].user.role = users[turns[t].token]
             /\ currentContext'.role = users[turns[t].token]]_vars
    /\ [](\A t \in TurnIds :
             calls[t].pc # "idle" => calls[t].ctx.role = turns[t].user.role)

\* ---- conversation access ----

\* the answer of a GET is the stored sequence of the id it names, or 404
GetAnswersStored(t) ==
    turns[t].method = "GET" /\ turns[t].pc = "loadChat" /\ turns'[t].pc # "loadChat" =>
        /\ turns'[t].pc = "responded"
        /\ IF turns[t].chatId \in DOMAIN chats
           THEN turns'[t].status = 200 /\ turns'[t].body = chats[turns[t].chatId]
           ELSE turns'[t].status = 404

\* a GET that names an id is never turned away for its credential
GetNeedsNoCredential(t) ==
    /\ turns[t].method = "GET"
    /\ turns[t].pc = "idle"
    /\ turns'[t].pc # "idle"
    /\ turns'[t].chatId # NoId
    => turns'[t].pc = "loadChat"

\* a POST that names a stored id continues on that conversation
PostResolvesStored(t) ==
    /\ turns[t].method = "POST"
    /\ turns[t].pc = "verifyChat"
    /\ turns'[t].pc # "verifyChat"
    /\ turns[t].chatId \in DOMAIN chats
    => /\ turns'[t].currentChatId = turns[t].chatId
       /\ ~turns'[t].isNewChat

\* C39: what a GET returns is determined by the conversation id and the store alone,
\* whatever credential the caller presents or lacks, and a POST of any authenticated
\* caller that names a stored conversation continues on that conversation
C39_AccessIndependentOfCaller ==
    [][\A t \in TurnIds :
          GetAnswersStored(t) /\ GetNeedsNoCredential(t) /\ PostResolvesStored(t)]_vars

\* a caller without a credential has been given the messages of the conversation
\* another caller's turn created and saved
C39_Witness ==
    /\ turns["t1"].isNewChat
    /\ turns["t1"].saved
    /\ turns["t2"].token = NoToken
    /\ turns["t2"].pc = "responded"
    /\ turns["t2"].status = 200
    /\ turns["t2"].chatId = turns["t1"].currentChatId
    /\ turns["t2"].body # <<>>
    /\ turns["t2"].body = chats[turns["t1"].currentChatId]

\* ---- read tools ----

\* turn t's read tool takes a step
ReadToolSteps(t) ==
    /\ calls'[t] # calls[t]
    /\ calls[t].tool \in ReadTools \/ calls'[t].tool \in ReadTools

\* C40: a step of a read tool leaves every primary record, user and conversation as
\* it is, whether the tool succeeds, reports not-found or is denied; all it adds is
\* its one audit entry, at the end of the log
C40_ReadToolsChangeNoRecord ==
    [][\A t \in TurnIds :
          ReadToolSteps(t) =>
              /\ db' = db
              /\ users' = users
              /\ chats' = chats
              /\ \/ auditLog' = auditLog
                 \/ /\ auditLog' = Append(auditLog, calls[t].entry)
                    /\ ~calls[t].audited
                    /\ calls'[t].audited]_vars

\* a read of one employee has succeeded and recorded its audit entry; the records are
\* the initial ones
C40_Witness ==
    \E t \in TurnIds :
        /\ calls[t].tool = "getEmployee"
        /\ calls[t].result = "ok"
        /\ calls[t].audited
        /\ db = InitialDb
        /\ auditLog = Append(InitialAuditLog, calls[t].entry)

====
